---- MODULE Spec2Model ----
(***************************************************************************)
(* A model of the Open-Soundtouch library: the device controller's HTTP    *)
(* operations (soundtouch_lib.py), the network discovery scan, the         *)
(* notification client (soundtouch_websocket.py) and the media player's    *)
(* track-end tracker (gui_media_player.py).                                *)
(*                                                                         *)
(* Strings the code inspects character by character (lower(), substring    *)
(* tests) are sequences of one-character strings; strings the code only    *)
(* passes along are TLA+ strings.                                          *)
(***************************************************************************)
EXTENDS Integers, Sequences, FiniteSets, TLC

VARIABLES
    http_log,   \* controller: every HTTP request issued so far (path and body)
    call,       \* controller: the last completed call (operation, arguments, result)
    player,     \* media player: the tracker's fields, its timers, the playlist
    track,      \* media player: what has happened since the guard window was entered
    ws,         \* notification client: flags, socket, callbacks, queue, connect()
    rx,         \* notification client: the receive thread inside on_message
    scan,       \* discovery: the thread inside scan()
    probe,      \* discovery: the probe thread of each host
    devices,    \* discovery: self.devices
    quiet,      \* discovery: hosts whose probe got an answer that counts for nothing
    groups      \* group manager: self.groups

ctlVars == <<http_log, call, groups>>
playerVars == <<player, track>>
wsVars == <<ws, rx>>
scanVars == <<scan, probe, devices, quiet>>

vars == <<http_log, call, player, track, ws, rx, scan, probe, devices, quiet, groups>>

-----------------------------------------------------------------------------
(* Bounds *)

\* Requests a controller may have issued before a further call is started.
MaxLog == 1
\* Host addresses in the scanned network, at most.
MaxHosts == 3
\* The largest max_threads a scan is called with.
MaxThreads == 2
\* Frames the receive thread reads from one client, at most.
MaxFrames == 2
\* Advances counted for one track's end, at most (the count saturates).
MaxCount == 2
\* Delayed calls of stream_to_device a start of a stream may take.
MaxRetries == 3
\* Container ids of the media server's content directory, beside the root 0.
MaxId == 2
\* Depth of recursion and number of Browse requests a listing may take.
MaxDepth == 3
MaxBrowse == 6
\* Files in the playlist, at most.
MaxTracks == 3
\* Length in ms of the tracks the device reports.
TrackMs == 4000
\* The step in ms by which time passes between timer expiries.
Quantum == 500
\* Volume requests a controller may have issued before a further set_volume.
MaxVolumeLog == 2
\* pending delayed calls of the stream start a user adds to
MaxStarts == 1
\* How far beyond either end of the volume range the drawn levels reach.
Margin == 2

-----------------------------------------------------------------------------
(* Python string operations *)

UpperChars == <<"A", "B", "C", "D", "E", "F", "G", "H", "I", "J", "K", "L", "M",
                "N", "O", "P", "Q", "R", "S", "T", "U", "V", "W", "X", "Y", "Z">>
LowerChars == <<"a", "b", "c", "d", "e", "f", "g", "h", "i", "j", "k", "l", "m",
                "n", "o", "p", "q", "r", "s", "t", "u", "v", "w", "x", "y", "z">>

\* str.lower() on one character
LowerChar(c) ==
    IF \E i \in 1..Len(UpperChars) : UpperChars[i] = c
    THEN LowerChars[CHOOSE i \in 1..Len(UpperChars) : UpperChars[i] = c]
    ELSE c

\* str.lower()
StrLower(s) == [i \in 1..Len(s) |-> LowerChar(s[i])]

\* sub in s
StrContains(sub, s) ==
    \E i \in 0..(Len(s) - Len(sub)) :
        \A j \in 1..Len(sub) : s[i + j] = sub[j]

-----------------------------------------------------------------------------
(* HTTP: what requests.get / requests.post can come back with *)

StatusCodes == {200, 201, 204, 400, 404, 500}
Exceptions == {"ReadTimeout", "ConnectTimeout", "ConnectionError"}

\* A response with a status code, or an exception raised by requests.
Responses ==
    [exc : {"none"}, code : StatusCodes] \cup [exc : Exceptions, code : {0}]

Request(path, body, resp) == [path |-> path, body |-> body, resp |-> resp]

NoCall == [op |-> "none", args |-> <<>>, ret |-> FALSE, reqs |-> <<>>, msgs |-> <<>>]

\* What went out on the wire: each request without the answer it got.
RECURSIVE Sent(_)
Sent(reqs) ==
    IF reqs = <<>> THEN <<>>
    ELSE <<[path |-> Head(reqs).path, body |-> Head(reqs).body]>> \o Sent(Tail(reqs))

\* The effect of one completed controller call: its requests join the log.
CompleteWithin(bound, op, args, out) ==
    /\ Len(http_log) < bound
    /\ http_log' = http_log \o Sent(out.reqs)
    /\ call' = [op |-> op, args |-> args, ret |-> out.ret, reqs |-> out.reqs,
                msgs |-> out.msgs]
    /\ UNCHANGED <<groups, playerVars, wsVars, scanVars>>

Complete(op, args, out) == CompleteWithin(MaxLog, op, args, out)

-----------------------------------------------------------------------------
(* SoundTouchController.send_key *)

KEYS ==
       (<<"p", "o", "w", "e", "r">> :> "POWER")
    @@ (<<"p", "l", "a", "y">> :> "PLAY")
    @@ (<<"p", "a", "u", "s", "e">> :> "PAUSE")
    @@ (<<"s", "t", "o", "p">> :> "STOP")
    @@ (<<"n", "e", "x", "t">> :> "NEXT_TRACK")
    @@ (<<"n", "e", "x", "t", "_", "t", "r", "a", "c", "k">> :> "NEXT_TRACK")
    @@ (<<"p", "r", "e", "v", "i", "o", "u", "s">> :> "PREV_TRACK")
    @@ (<<"p", "r", "e", "v">> :> "PREV_TRACK")
    @@ (<<"p", "r", "e", "v", "_", "t", "r", "a", "c", "k">> :> "PREV_TRACK")
    @@ (<<"m", "u", "t", "e">> :> "MUTE")
    @@ (<<"v", "o", "l", "u", "m", "e", "_", "u", "p">> :> "VOLUME_UP")
    @@ (<<"v", "o", "l", "_", "u", "p">> :> "VOLUME_UP")
    @@ (<<"v", "o", "l", "u", "m", "e", "_", "d", "o", "w", "n">> :> "VOLUME_DOWN")
    @@ (<<"v", "o", "l", "_", "d", "o", "w", "n">> :> "VOLUME_DOWN")
    @@ (<<"p", "r", "e", "s", "e", "t", "1">> :> "PRESET_1")
    @@ (<<"p", "r", "e", "s", "e", "t", "2">> :> "PRESET_2")
    @@ (<<"p", "r", "e", "s", "e", "t", "3">> :> "PRESET_3")
    @@ (<<"p", "r", "e", "s", "e", "t", "4">> :> "PRESET_4")
    @@ (<<"p", "r", "e", "s", "e", "t", "5">> :> "PRESET_5")
    @@ (<<"p", "r", "e", "s", "e", "t", "6">> :> "PRESET_6")
    @@ (<<"t", "h", "u", "m", "b", "s", "u", "p">> :> "THUMBS_UP")
    @@ (<<"t", "h", "u", "m", "b", "s", "d", "o", "w", "n">> :> "THUMBS_DOWN")

\* The keys a caller passes: known ones in several spellings, unknown ones.
KeyInputs ==
    { <<"p", "l", "a", "y">>, <<"P", "L", "A", "Y">>, <<"S", "t", "o", "p">>,
      <<"m", "u", "t", "e">>, <<"P", "R", "E", "S", "E", "T", "1">>,
      <<"v", "o", "l", "_", "u", "p">>, <<"e", "j", "e", "c", "t">>, <<>> }

Senders == {"Gabbo", "App"}

KeyStates == <<"press", "release">>

KeyBody(state, sender, key_value) ==
    [state |-> state, sender |-> sender, key |-> key_value]

Ok200(resp) == resp.exc = "none" /\ resp.code = 200

\* for state in ['press', 'release']: post; a status other than 200 returns
\* False, an exception leaves through the except clause and returns False.
RECURSIVE send_key_loop(_, _, _, _, _)
send_key_loop(states, resps, key_value, sender, reqs) ==
    IF states = <<>> THEN [ret |-> TRUE, reqs |-> reqs, msgs |-> <<>>]
    ELSE LET sent == Append(reqs, Request("/key",
                         KeyBody(Head(states), sender, key_value), Head(resps)))
         IN  IF Head(resps).exc # "none"
             THEN [ret |-> FALSE, reqs |-> sent, msgs |-> <<>>]
             ELSE IF Head(resps).code # 200
             THEN [ret |-> FALSE, reqs |-> sent, msgs |-> <<>>]
             ELSE send_key_loop(Tail(states), Tail(resps), key_value, sender, sent)

\* A send_key that posts the release whatever became of the press.
send_key_no_early_return(key, sender, resps) ==
    IF StrLower(key) \notin DOMAIN KEYS
    THEN [ret |-> FALSE, reqs |-> <<>>, msgs |-> <<>>]
    ELSE [ret |-> Ok200(resps[1]) /\ Ok200(resps[2]),
          reqs |-> << Request("/key", KeyBody("press", sender, KEYS[StrLower(key)]), resps[1]),
                      Request("/key", KeyBody("release", sender, KEYS[StrLower(key)]), resps[2]) >>,
          msgs |-> <<>>]

\* send_key(key, sender): resps are the device's answers to the requests in order.
send_key(key, sender, resps) ==
    IF StrLower(key) \notin DOMAIN KEYS
    THEN [ret |-> FALSE, reqs |-> <<>>, msgs |-> <<>>]
    ELSE send_key_loop(KeyStates, resps, KEYS[StrLower(key)], sender, <<>>)

SendKey ==
    \E key \in KeyInputs, sender \in Senders, r1 \in Responses, r2 \in Responses :
        Complete("send_key", <<key, sender>>, send_key(key, sender, <<r1, r2>>))

-----------------------------------------------------------------------------
(* SoundTouchController.set_volume *)

VolMin == 0
VolMax == 100

\* The levels a caller passes: around both ends of the range, inside and outside.
VolumeInputs ==
    ((VolMin - Margin)..(VolMin + Margin)) \cup ((VolMax - Margin)..(VolMax + Margin))

VolumeBody(volume, mute) ==
    [targetvolume |-> volume, muteenabled |-> IF mute THEN "true" ELSE "false"]

\* A set_volume whose range check lets the level just above the range through.
set_volume_off_by_one(volume, mute, resp) ==
    IF ~(VolMin <= volume /\ volume <= VolMax + 1)
    THEN [ret |-> FALSE, reqs |-> <<>>, msgs |-> <<>>]
    ELSE [ret |-> Ok200(resp),
          reqs |-> << Request("/volume", VolumeBody(volume, mute), resp) >>,
          msgs |-> <<>>]

\* set_volume(volume, mute): the range check comes first; an exception raised
\* by the post returns False.
set_volume(volume, mute, resp) ==
    IF ~(VolMin <= volume /\ volume <= VolMax)
    THEN [ret |-> FALSE, reqs |-> <<>>, msgs |-> <<>>]
    ELSE [ret |-> resp.exc = "none" /\ resp.code = 200,
          reqs |-> << Request("/volume", VolumeBody(volume, mute), resp) >>,
          msgs |-> <<>>]

SetVolume ==
    \E volume \in VolumeInputs, mute \in BOOLEAN, resp \in Responses :
        CompleteWithin(MaxVolumeLog, "set_volume", <<volume, mute>>,
                       set_volume(volume, mute, resp))

-----------------------------------------------------------------------------
(* SoundTouchController.get_bass_capabilities, set_bass *)

\* The bass ranges a device reports in /bassCapabilities (bassMin, bassMax).
BassRanges == { <<0 - 9, 0>>, <<0 - 4, 4>> }

\* The levels a caller passes: around both ends of the reported range.
BassInputs(range) ==
    ((range[1] - Margin)..(range[1] + Margin)) \cup ((range[2] - Margin)..(range[2] + Margin))

\* set_bass(bass): posts the level as given; an exception returns False.
set_bass(bass, resp) ==
    [ret |-> resp.exc = "none" /\ resp.code = 200,
     reqs |-> << Request("/bass", [bass |-> bass], resp) >>,
     msgs |-> <<>>]

\* The device reports its range, then the caller sets a level.
SetBass ==
    \E range \in BassRanges, resp \in Responses :
        \E bass \in BassInputs(range) :
            Complete("set_bass", <<bass, range>>, set_bass(bass, resp))

-----------------------------------------------------------------------------
(* SoundTouchController.add_wireless_profile *)

S_open == <<"o", "p", "e", "n">>
S_none == <<"n", "o", "n", "e">>
S_wpa == <<"w", "p", "a">>
S_wpa2 == <<"w", "p", "a", "2">>
S_wpatkip == <<"w", "p", "a", "t", "k", "i", "p">>
S_wpa2aes == <<"w", "p", "a", "2", "a", "e", "s">>
S_wpa_or_wpa2 == <<"w", "p", "a", "_", "o", "r", "_", "w", "p", "a", "2">>
S_wep == <<"w", "e", "p">>

\* Normalisation of the security type to the device's enum.
sec_map == (S_open :> S_none) @@ (S_wpa2 :> S_wpa2aes) @@ (S_wpa :> S_wpatkip)

\* sec_map.get(security_type.lower(), security_type)
security_value(security_type) ==
    IF StrLower(security_type) \in DOMAIN sec_map
    THEN sec_map[StrLower(security_type)]
    ELSE security_type

\* The security types a caller passes: the setup dialog's list, other
\* spellings and the device's own enum values.
SecurityInputs ==
    { S_wpa_or_wpa2, S_wpa2, S_wpa, S_wep, S_open,
      <<"O", "P", "E", "N">>, <<"W", "P", "A", "2">>, S_none, <<"N", "O", "N", "E">> }

SsidInputs == {"", "HomeNet"}
PasswordInputs == {"", "secret"}
TimeoutInputs == {4, 5, 45, 60, 61}

\* if timeout_secs < 5 or timeout_secs > 60: timeout_secs = 30
profile_timeout(timeout_secs) ==
    IF timeout_secs < 5 \/ timeout_secs > 60 THEN 30 ELSE timeout_secs

ProfileBody(ssid, password, security_type, timeout_secs) ==
    [ssid |-> ssid, password |-> password, timeout |-> profile_timeout(timeout_secs),
     securityType |-> security_value(security_type)]

\* What monitor_callback is told; nothing when no callback was given.
Told(monitor, msgs) == IF monitor THEN msgs ELSE <<>>

\* An add_wireless_profile that treats the read-timeout like any other failure
\* and accepts status 200 only.
add_wireless_profile_strict(ssid, password, security_type, timeout_secs, monitor, resp) ==
    IF ssid = "" \/ (security_value(security_type) # S_none /\ password = "")
    THEN [ret |-> FALSE, reqs |-> <<>>, msgs |-> <<>>]
    ELSE [ret |-> Ok200(resp),
          reqs |-> << Request("/addWirelessProfile",
                        ProfileBody(ssid, password, security_type, timeout_secs), resp) >>,
          msgs |-> Told(monitor, <<"xml">>)]

\* An add_wireless_profile that asks for a password whatever the security type.
add_wireless_profile_password_always(ssid, password, security_type, timeout_secs, monitor, resp) ==
    IF ssid = "" \/ password = ""
    THEN [ret |-> FALSE, reqs |-> <<>>, msgs |-> <<>>]
    ELSE [ret |-> (resp.exc = "none" /\ 200 <= resp.code /\ resp.code < 300)
                    \/ resp.exc # "none",
          reqs |-> << Request("/addWirelessProfile",
                        ProfileBody(ssid, password, security_type, timeout_secs), resp) >>,
          msgs |-> Told(monitor, <<"xml">>)]

\* add_wireless_profile(ssid, password, security_type, timeout_secs, monitor_callback):
\* validation, then one POST. A 2xx status returns True, another status False;
\* a ReadTimeout returns True; any other exception reaches the outer except
\* clause with config_sent already set, which returns True as well.
add_wireless_profile(ssid, password, security_type, timeout_secs, monitor, resp) ==
    IF ssid = "" \/ (security_value(security_type) # S_none /\ password = "")
    THEN [ret |-> FALSE, reqs |-> <<>>, msgs |-> <<>>]
    ELSE LET req == Request("/addWirelessProfile",
                        ProfileBody(ssid, password, security_type, timeout_secs), resp)
         IN  IF resp.exc = "ReadTimeout"
             THEN [ret |-> TRUE, reqs |-> <<req>>,
                   msgs |-> Told(monitor, <<"xml", "standby">>)]
             ELSE IF resp.exc # "none"
             THEN [ret |-> TRUE, reqs |-> <<req>>,
                   msgs |-> Told(monitor, <<"xml", "exception", "traceback">>)]
             ELSE IF ~(200 <= resp.code /\ resp.code < 300)
             THEN [ret |-> FALSE, reqs |-> <<req>>,
                   msgs |-> Told(monitor, <<"xml", "failed">>)]
             ELSE [ret |-> TRUE, reqs |-> <<req>>,
                   msgs |-> Told(monitor, <<"xml", "accepted">>)]

AddWirelessProfile ==
    \E ssid \in SsidInputs, password \in PasswordInputs,
       security_type \in SecurityInputs, timeout_secs \in TimeoutInputs,
       monitor \in BOOLEAN, resp \in Responses :
        Complete("add_wireless_profile",
                 <<ssid, password, security_type, timeout_secs>>,
                 add_wireless_profile(ssid, password, security_type, timeout_secs,
                                      monitor, resp))

-----------------------------------------------------------------------------
(* MediaPlayerWidget: track-end detection *)

MonitorIntervalMs == 2000
AdvanceDelayMs == 1500
EndGuardMs == 500
InterpolationIntervalMs == 500
SliderDefaultMax == 99
FastPollIntervalMs == 300
MaxPollingAttempts == 30
PlayingAttempts == 10
DlnaRetryMs == 5000
ServerDelayMs == 2000
NoFile == 0 - 1

PlayStates == {"PLAY_STATE", "PAUSE_STATE", "STOP_STATE", "BUFFERING_STATE"}

Min(a, b) == IF a < b THEN a ELSE b

\* The sub-containers a container may list, in the order of the answer.
SubLists ==
    {<<>>} \cup {<<a>> : a \in 1..MaxId}
           \cup {<<a, b>> : a \in 1..MaxId, b \in 1..MaxId}

\* The content directory of the media server: for each container id the ids
\* of the sub-containers its Browse answer lists. A container without
\* sub-containers holds items. Nothing keeps an id from occurring below
\* itself.
Directories == [0..MaxId -> SubLists]

TopContainers == 5

\* No listing is under way. stack holds the containers still to browse with
\* their depth of recursion, the next one first.
NoBrowse ==
    [phase |-> "idle", dir |-> [id \in 0..MaxId |-> <<>>], stack |-> <<>>,
     requests |-> 0, deepest |-> 0, files |-> 0]

\* The widget after __init__, with a playlist of n files loaded and the
\* file at index selected, and a controller set or not.
PlayerInit(n, index, has_controller) ==
    [ playlist_len |-> n,
      playlist_index |-> index,
      controller |-> has_controller,
      last_position_ms |-> 0,
      last_duration_ms |-> 0,
      current_play_status |-> "None",
      monitor_active |-> FALSE,    \* track_monitor_timer.isActive()
      monitor_left |-> 0,          \* ms until track_monitor_timer fires
      advances |-> <<>>,           \* ms left of each pending singleShot(play_next)
      last_update_ago |-> 0,       \* ms between last_update_time and now
      slider_value |-> 0,          \* progress_slider.value()
      slider_maximum |-> SliderDefaultMax,
      interpolation_active |-> FALSE,  \* progress_interpolation_timer.isActive()
      interpolation_left |-> 0,    \* ms until progress_interpolation_timer fires
      shown_since_update |-> FALSE,    \* the slider was written since the last update
      current_file |-> IF n = 0 THEN NoFile ELSE index,  \* its place in the playlist
      currently_streaming_file |-> NoFile,
      dlna_process |-> TRUE,       \* minidlna runs
      dlna_starter |-> FALSE,      \* a start of minidlna is under way
      server_running |-> TRUE,     \* stream_server and stream_server.running
      media |-> "unreachable",     \* what a stream start meets, see MediaStates
      device_answers |-> FALSE,    \* get_nowplaying() returns a status
      starts |-> <<>>,             \* pending singleShot calls of the stream start
      fast_polling_active |-> FALSE,   \* fast_polling_timer.isActive()
      fast_polling_left |-> 0,     \* ms until fast_polling_timer fires
      polling_attempts |-> 0,
      streams |-> 0,               \* streams started on the device, up to MaxCount
      reported |-> "",             \* the failure the last navigation call logged
      pressed_at |-> NoFile,       \* the index at the user's last press of next or previous
      stopped |-> FALSE,           \* stopped, and no stream started by the user since
      retries |-> 0,               \* delayed stream_to_device calls since the user's press
      browse |-> NoBrowse ]        \* the _list_dlna_files call under way

TrackInit == [in_window |-> FALSE, scheduled |-> 0, moved |-> 0, from |-> 0]

\* Resolve duration: prefer device, then DLNA DB, then file metadata.
resolve_duration(duration_ms, db_duration_ms, cached_file_duration_ms) ==
    IF duration_ms <= 0
    THEN IF db_duration_ms > 0 THEN db_duration_ms
         ELSE IF cached_file_duration_ms > 0 THEN cached_file_duration_ms
         ELSE duration_ms
    ELSE duration_ms

\* QSlider keeps its value inside 0..maximum: setValue bounds the new value,
\* setMaximum lowers a value that the new maximum no longer admits.
setValue(p, value) ==
    [p EXCEPT !.slider_value = Min(value, p.slider_maximum)]

setMaximum(p, maximum) ==
    [p EXCEPT !.slider_maximum = maximum,
              !.slider_value = Min(p.slider_value, maximum)]

\* _start_monitor: starts the track monitor and the interpolation timer,
\* each unless it is running.
start_monitor(p) ==
    LET monitored == IF ~p.monitor_active
                     THEN [p EXCEPT !.monitor_active = TRUE,
                                    !.monitor_left = MonitorIntervalMs]
                     ELSE p
    IN  IF ~monitored.interpolation_active
        THEN [monitored EXCEPT !.interpolation_active = TRUE,
                               !.interpolation_left = InterpolationIntervalMs]
        ELSE monitored

\* _stop_monitor: stops the track monitor and the interpolation timer.
stop_monitor(p) ==
    LET unmonitored == IF p.monitor_active
                       THEN [p EXCEPT !.monitor_active = FALSE, !.monitor_left = 0]
                       ELSE p
    IN  IF unmonitored.interpolation_active
        THEN [unmonitored EXCEPT !.interpolation_active = FALSE,
                                 !.interpolation_left = 0]
        ELSE unmonitored

\* _update_progress_ui: a position of 0 leaves the slider's value alone and
\* a duration of 0 leaves its maximum alone.
update_progress_ui(p, position_ms, duration_ms) ==
    LET placed == IF position_ms # 0
                  THEN [setValue(p, position_ms) EXCEPT !.shown_since_update = TRUE]
                  ELSE p
    IN  IF duration_ms # 0 THEN setMaximum(placed, duration_ms) ELSE placed

\* The time since the last update, d ms later. It is read only for a playing
\* track of known duration, and there only up to the track's end, so it is
\* kept no further than that.
elapsed_after(p, d) ==
    IF p.current_play_status = "PLAY_STATE" /\ p.last_duration_ms > 0
    THEN IF p.last_position_ms + p.last_update_ago >= p.last_duration_ms
         THEN p.last_update_ago
         ELSE p.last_update_ago + d
    ELSE p.last_update_ago

\* The position _interpolate_progress works out elapsed_ms after the update.
interpolated_from_zero(p, elapsed_ms) ==
    Min(elapsed_ms, p.last_duration_ms)

interpolated_stale(p, elapsed_ms) ==
    Min(p.last_position_ms, p.last_duration_ms)

interpolated_position(p, elapsed_ms) ==
    IF p.last_position_ms + elapsed_ms > p.last_duration_ms
    THEN p.last_duration_ms
    ELSE p.last_position_ms + elapsed_ms

\* _interpolate_progress: only for a playing track of known duration.
interpolate_progress(p) ==
    IF p.current_play_status # "PLAY_STATE" THEN p
    ELSE IF p.last_duration_ms <= 0 THEN p
    ELSE [setValue(p, interpolated_position(p, p.last_update_ago))
             EXCEPT !.shown_since_update = TRUE]

\* The tracker's stored state shows a playing track inside the end guard.
AtTrackEnd(p) ==
    /\ p.last_duration_ms > 0
    /\ p.last_position_ms >= p.last_duration_ms - EndGuardMs
    /\ p.current_play_status = "PLAY_STATE"

\* _on_now_playing_updated: stores status, the time, position and the
\* resolved duration, updates the progress display when either is non-zero,
\* then starts the monitor for PLAY_STATE and stops it otherwise.
on_now_playing_updated(p, play_status, position_ms, duration_ms) ==
    LET stored == [p EXCEPT !.current_play_status = play_status,
                            !.last_update_ago = 0,
                            !.shown_since_update = FALSE,
                            !.last_position_ms = position_ms,
                            !.last_duration_ms = duration_ms]
        shown == IF position_ms # 0 \/ duration_ms # 0
                 THEN update_progress_ui(stored, position_ms, duration_ms)
                 ELSE stored
    IN  IF play_status = "PLAY_STATE" THEN start_monitor(shown) ELSE stop_monitor(shown)

\* check_track_end: at the end of a playing track the monitor is stopped and
\* play_next is scheduled AdvanceDelayMs later.
check_track_end(p) ==
    IF p.playlist_len = 0 \/ ~p.controller THEN p
    ELSE IF p.last_duration_ms <= 0 THEN p
    ELSE IF p.last_position_ms >= p.last_duration_ms - EndGuardMs /\ p.last_duration_ms > 0
    THEN IF p.current_play_status = "PLAY_STATE"
         THEN [p EXCEPT !.monitor_active = FALSE, !.monitor_left = 0,
                        !.advances = Append(@, AdvanceDelayMs)]
         ELSE p
    ELSE p

\* What a stream start meets: the local media server or the file does not
\* answer the test requests, the device refuses the URL, or it accepts it.
MediaStates == {"unreachable", "refused", "accepted"}

\* A pending QTimer.singleShot call.
SingleShot(fn, left) == [fn |-> fn, left |-> left]

\* _do_stream without the check of play_url_dlna's result.
do_stream_unchecked(p) ==
    IF p.media = "unreachable" THEN p
    ELSE [p EXCEPT !.currently_streaming_file =
                       IF p.media = "accepted" THEN p.current_file ELSE NoFile,
                   !.polling_attempts = 0,
                   !.fast_polling_active = TRUE,
                   !.fast_polling_left = FastPollIntervalMs,
                   !.streams = Min(MaxCount, @ + 1)]

\* _do_stream: returns when a test request fails; otherwise sends the URL to
\* the device and, when the device accepts it, starts the fast polling.
do_stream(p) ==
    IF p.media = "unreachable" THEN p
    ELSE IF p.media = "accepted"
    THEN [p EXCEPT !.currently_streaming_file = p.current_file,
                   !.polling_attempts = 0,
                   !.fast_polling_active = TRUE,
                   !.fast_polling_left = FastPollIntervalMs,
                   !.streams = Min(MaxCount, @ + 1)]
    ELSE [p EXCEPT !.currently_streaming_file = NoFile]

\* stream_to_device: needs a selected file and a controller; without minidlna
\* it starts minidlna and calls itself again DlnaRetryMs later; without the
\* stream server it starts the server and streams ServerDelayMs later;
\* otherwise it streams at once. The server thread is taken to be up once
\* started.
stream_to_device(p) ==
    IF p.current_file = NoFile
    THEN [p EXCEPT !.reported = "no file"]
    ELSE IF ~p.controller
    THEN [p EXCEPT !.reported = "no device"]
    ELSE IF ~p.dlna_process
    THEN [p EXCEPT !.dlna_starter = TRUE,
                   !.starts = Append(@, SingleShot("stream_to_device", DlnaRetryMs))]
    ELSE IF ~p.server_running
    THEN [p EXCEPT !.server_running = TRUE,
                   !.starts = Append(@, SingleShot("_do_stream", ServerDelayMs))]
    ELSE do_stream(p)

\* play_next: with more than one file and a controller the index moves on by
\* one, cyclically, the file there is selected and streamed.
play_next_stays(p) ==
    IF p.playlist_len = 0 \/ ~p.controller
    THEN [p EXCEPT !.reported = "no playlist or device"]
    ELSE IF p.playlist_len <= 1
    THEN [p EXCEPT !.reported = "single track"]
    ELSE stream_to_device([p EXCEPT !.current_file = p.playlist_index])

play_next(p) ==
    IF p.playlist_len = 0 \/ ~p.controller
    THEN [p EXCEPT !.reported = "no playlist or device"]
    ELSE IF p.playlist_len <= 1
    THEN [p EXCEPT !.reported = "single track"]
    ELSE LET playlist_index == (p.playlist_index + 1) % p.playlist_len
         IN  stream_to_device([p EXCEPT !.playlist_index = playlist_index,
                                        !.current_file = playlist_index])

\* play_previous: with a file in the playlist the index moves back by one,
\* cyclically, the file there is selected and streamed.
play_previous(p) ==
    IF p.playlist_len = 0 THEN p
    ELSE LET playlist_index == (p.playlist_index - 1) % p.playlist_len
         IN  stream_to_device([p EXCEPT !.playlist_index = playlist_index,
                                        !.current_file = playlist_index])

\* set_controller: takes the controller, forgets the streamed file and the
\* stored progress, and sets the slider and its maximum to 0; for a device
\* that answers it asks for the status at once.
set_controller(p, reachable) ==
    LET cleared == setMaximum(setValue([p EXCEPT !.controller = TRUE,
                                                 !.currently_streaming_file = NoFile,
                                                 !.last_position_ms = 0,
                                                 !.last_duration_ms = 0], 0), 0)
    IN  IF reachable
        THEN [cleared EXCEPT !.starts = Append(@, SingleShot("_fetch_current_status", 0))]
        ELSE cleared

\* What the device may report: status, position, duration, and the duration
\* the DLNA database holds for the title. A playing track is reported at the
\* start, around the end guard and at the end; another status at the start or
\* late in the track.
NowPlayingInputs ==
    {<<"PLAY_STATE", position_ms, durations[1], durations[2]>> :
        position_ms \in {0, TrackMs - 600, TrackMs - 500, TrackMs - 200, TrackMs},
        durations \in {<<0, 0>>, <<0, TrackMs>>, <<TrackMs, 0>>}}
    \cup
    {<<play_status, position_ms, duration_ms, 0>> :
        play_status \in PlayStates \ {"PLAY_STATE"},
        position_ms \in {0, TrackMs - 200},
        duration_ms \in {0, TrackMs}}

\* No status: get_nowplaying() returned None.
NoStatus == <<>>

\* _fetch_current_status: with a controller and a status from the device the
\* update handler runs.
fetch_current_status(p, report) ==
    IF ~p.controller THEN p
    ELSE IF report = NoStatus THEN p
    ELSE on_now_playing_updated(p, report[1], report[2],
                                resolve_duration(report[3], report[4], 0))

\* _poll_status_fast without the limit of attempts.
poll_status_fast_unlimited(p, report) ==
    LET counted == [p EXCEPT !.polling_attempts = @ + 1]
        stopped(q) == [q EXCEPT !.fast_polling_active = FALSE, !.fast_polling_left = 0]
    IN  IF ~counted.controller THEN stopped(counted)
        ELSE IF report = NoStatus THEN counted
        ELSE LET q == on_now_playing_updated(counted, report[1], report[2],
                          resolve_duration(report[3], report[4], 0))
             IN  IF /\ report[1] = "PLAY_STATE"
                    /\ (report[2] > 0 \/ counted.polling_attempts >= PlayingAttempts)
                 THEN stopped(q)
                 ELSE q

\* _poll_status_fast: counts the attempt and stops the fast polling at
\* MaxPollingAttempts or without a controller; a status from the device goes
\* to the update handler, and the polling stops once the device plays at a
\* position above 0, or plays after PlayingAttempts attempts.
poll_status_fast(p, report) ==
    LET counted == [p EXCEPT !.polling_attempts = @ + 1]
        stopped(q) == [q EXCEPT !.fast_polling_active = FALSE, !.fast_polling_left = 0]
    IN  IF counted.polling_attempts >= MaxPollingAttempts THEN stopped(counted)
        ELSE IF ~counted.controller THEN stopped(counted)
        ELSE IF report = NoStatus THEN counted
        ELSE LET q == on_now_playing_updated(counted, report[1], report[2],
                          resolve_duration(report[3], report[4], 0))
             IN  IF /\ report[1] = "PLAY_STATE"
                    /\ (report[2] > 0 \/ counted.polling_attempts >= PlayingAttempts)
                 THEN stopped(q)
                 ELSE q

\* What get_nowplaying() returns.
StatusInputs(p) == IF p.device_answers THEN NowPlayingInputs ELSE {NoStatus}

\* The pending singleShot calls without the i-th.
Without(q, i) == [j \in 1..(Len(q) - 1) |-> IF j < i THEN q[j] ELSE q[j + 1]]

\* The first pending singleShot call that is due.
Due(q) == CHOOSE i \in 1..Len(q) :
              q[i].left = 0 /\ \A j \in 1..(i - 1) : q[j].left # 0

\* ms until the next timer expiry (0 when one is due); -1 with no timer set.
RECURSIVE SeqMin(_)
SeqMin(q) == IF Len(q) = 1 THEN q[1] ELSE Min(q[1], SeqMin(Tail(q)))

NextExpiry(p) ==
    LET timers == p.advances \o (IF p.monitor_active THEN <<p.monitor_left>> ELSE <<>>)
                      \o (IF p.interpolation_active THEN <<p.interpolation_left>>
                          ELSE <<>>)
                      \o (IF p.fast_polling_active THEN <<p.fast_polling_left>>
                          ELSE <<>>)
                      \o [i \in 1..Len(p.starts) |-> p.starts[i].left]
    IN  IF timers = <<>> THEN 0 - 1 ELSE SeqMin(timers)

\* The history kept for a track's end: whether the tracker shows a track
\* inside the guard window and, since it entered, how many advances were
\* scheduled, how often the index moved, and where the index was.
Observe(q, scheduled, moved) ==
    IF ~AtTrackEnd(q) THEN TrackInit
    ELSE IF ~track.in_window
    THEN [in_window |-> TRUE, scheduled |-> scheduled, moved |-> moved,
          from |-> player.playlist_index]
    ELSE [track EXCEPT !.scheduled = Min(MaxCount, @ + scheduled),
                       !.moved = Min(MaxCount, @ + moved)]

\* The device reports what is playing (a NowPlayingUpdated event, or a poll).
NowPlayingUpdated ==
    \E report \in NowPlayingInputs :
        LET play_status == report[1]
            position_ms == report[2]
            duration_ms == report[3]
            db_duration_ms == report[4]
            cached_file_duration_ms == 0
            q == on_now_playing_updated(player, play_status, position_ms,
                     resolve_duration(duration_ms, db_duration_ms, cached_file_duration_ms))
        IN  /\ player' = q
            /\ track' = Observe(q, 0, 0)
            /\ UNCHANGED <<ctlVars, wsVars, scanVars>>

\* track_monitor_timer fires.
MonitorTick ==
    /\ player.monitor_active /\ player.monitor_left = 0
    /\ LET rearmed == [player EXCEPT !.monitor_left = MonitorIntervalMs]
           q == check_track_end(rearmed)
       IN  /\ player' = q
           /\ track' = Observe(q, Len(q.advances) - Len(player.advances), 0)
    /\ UNCHANGED <<ctlVars, wsVars, scanVars>>

\* progress_interpolation_timer fires.
InterpolateTick ==
    /\ player.interpolation_active /\ player.interpolation_left = 0
    /\ player' = interpolate_progress(
                     [player EXCEPT !.interpolation_left = InterpolationIntervalMs])
    /\ UNCHANGED <<track, ctlVars, wsVars, scanVars>>

\* A pending singleShot fires: play_next runs.
AdvanceFires ==
    /\ player.advances # <<>> /\ Head(player.advances) = 0
    /\ LET q == play_next([player EXCEPT !.advances = Tail(@)])
       IN  /\ player' = q
           /\ track' = Observe(q, 0, IF q.playlist_index # player.playlist_index
                                      THEN 1 ELSE 0)
    /\ UNCHANGED <<ctlVars, wsVars, scanVars>>

\* The user presses "next".
PlayNext ==
    /\ Len(player.starts) < MaxStarts
    /\ LET q == play_next([player EXCEPT !.reported = "",
                                         !.pressed_at = player.playlist_index,
                                         !.stopped = FALSE])
       IN  /\ player' = q
           /\ track' = Observe(q, 0, IF q.playlist_index # player.playlist_index
                                      THEN 1 ELSE 0)
    /\ UNCHANGED <<ctlVars, wsVars, scanVars>>

\* The user presses "previous".
PlayPrevious ==
    /\ Len(player.starts) < MaxStarts
    /\ LET q == play_previous([player EXCEPT !.reported = "",
                                             !.pressed_at = player.playlist_index,
                                             !.stopped = FALSE])
       IN  /\ player' = q
           /\ track' = Observe(q, 0, IF q.playlist_index # player.playlist_index
                                      THEN 1 ELSE 0)
    /\ UNCHANGED <<ctlVars, wsVars, scanVars>>

\* stop_playback: stops the local preview and forgets the streamed file.
stop_playback(p) ==
    [p EXCEPT !.currently_streaming_file = NoFile, !.stopped = TRUE]

\* send_stop_key: with a controller, sends the STOP key and, when the device
\* took it, forgets the streamed file.
send_stop_key(p, success) ==
    IF ~p.controller THEN p
    ELSE IF success
    THEN [p EXCEPT !.currently_streaming_file = NoFile, !.stopped = TRUE]
    ELSE p

\* stop_playback is called.
StopPlayback ==
    /\ player' = stop_playback(player)
    /\ track' = Observe(player', 0, 0)
    /\ UNCHANGED <<ctlVars, wsVars, scanVars>>

\* The user presses "stop"; the device takes the key or does not.
SendStopKey ==
    /\ \E success \in BOOLEAN : player' = send_stop_key(player, success)
    /\ track' = Observe(player', 0, 0)
    /\ UNCHANGED <<ctlVars, wsVars, scanVars>>

\* The user picks a device. The status request of the last pick, due at
\* once, has run before.
SetController ==
    /\ \A i \in 1..Len(player.starts) : player.starts[i].fn # "_fetch_current_status"
    /\ \E reachable \in BOOLEAN :
          LET q == set_controller(player, reachable)
          IN  /\ player' = q
              /\ track' = Observe(q, 0, 0)
    /\ UNCHANGED <<ctlVars, wsVars, scanVars>>

\* A pending singleShot call of the stream start is due and runs.
SingleShotFires ==
    /\ \E i \in 1..Len(player.starts) : player.starts[i].left = 0
    /\ LET i == Due(player.starts)
           fn == player.starts[i].fn
           rest == [player EXCEPT !.starts = Without(@, i)]
       IN  \E report \in StatusInputs(player) :
             LET q == IF fn = "stream_to_device" THEN stream_to_device(rest)
                      ELSE IF fn = "_do_stream" THEN do_stream(rest)
                      ELSE fetch_current_status(rest, report)
             IN  /\ player' = q
                 /\ track' = Observe(q, 0, 0)
    /\ UNCHANGED <<ctlVars, wsVars, scanVars>>

\* fast_polling_timer fires.
PollStatusFast ==
    /\ player.fast_polling_active /\ player.fast_polling_left = 0
    /\ \E report \in StatusInputs(player) :
          LET q == poll_status_fast(
                       [player EXCEPT !.fast_polling_left = FastPollIntervalMs], report)
          IN  /\ player' = q
              /\ track' = Observe(q, 0, 0)
    /\ UNCHANGED <<ctlVars, wsVars, scanVars>>

\* The start of minidlna succeeds.
OnDlnaServerStarted ==
    /\ player.dlna_starter
    /\ player' = [player EXCEPT !.dlna_process = TRUE, !.dlna_starter = FALSE]
    /\ UNCHANGED <<track, ctlVars, wsVars, scanVars>>

\* The start of minidlna fails.
OnDlnaServerFailed ==
    /\ player.dlna_starter
    /\ player' = [player EXCEPT !.dlna_starter = FALSE]
    /\ UNCHANGED <<track, ctlVars, wsVars, scanVars>>

\* Time passes up to the next timer expiry, at most a quantum at a time.
TimePasses ==
    /\ NextExpiry(player) > 0
    /\ LET d == Min(Quantum, NextExpiry(player))
       IN  player' = [player EXCEPT
                        !.monitor_left = IF player.monitor_active THEN @ - d ELSE @,
                        !.interpolation_left =
                            IF player.interpolation_active THEN @ - d ELSE @,
                        !.last_update_ago = elapsed_after(player, d),
                        !.fast_polling_left =
                            IF player.fast_polling_active THEN @ - d ELSE @,
                        !.starts = [i \in 1..Len(@) |-> [@[i] EXCEPT !.left = @ - d]],
                        !.advances = [i \in 1..Len(@) |-> @[i] - d]]
    /\ UNCHANGED <<track, ctlVars, wsVars, scanVars>>

-----------------------------------------------------------------------------
(* SoundTouchWebSocket: inbound frames *)

\* An XML element: its tag, its deviceID attribute, its child elements and
\* whether its numeric fields parse (int() raises ValueError otherwise).
Element(tag, deviceID, children, ok) ==
    [tag |-> tag, deviceID |-> deviceID, children |-> children, ok |-> ok]

Leaf(tag, ok) == Element(tag, "", <<>>, ok)

\* A notification dict; updates is filled for 'multipleUpdates' only.
Notification(type, deviceID, updates) ==
    [deviceID |-> deviceID, type |-> type, updates |-> updates]

\* _parse_notification returned None / raised.
None == Notification("None", "", <<>>)
Raised == Notification("Raised", "", <<>>)

\* Tags with a parser of their own that reads numbers with int().
NumericTags == {"volumeUpdated", "bassUpdated"}
\* Tags decoded without reading numbers.
PlainTags == {"connectionStateUpdated", "userActivityUpdate", "nowPlayingUpdated",
              "connectionStatusChanged", "zoneUpdated", "presetsUpdated"}

\* How often 'Raised' occurs among the notifications of q.
RECURSIVE AnyRaised(_)
AnyRaised(q) == q # <<>> /\ (Head(q).type = "Raised" \/ AnyRaised(Tail(q)))

\* for child in root: keep what _parse_notification returns unless None,
\* with the wrapper's deviceID added.
RECURSIVE Tagged(_, _)
Tagged(q, device_id) ==
    IF q = <<>> THEN <<>>
    ELSE IF Head(q).type = "None" THEN Tagged(Tail(q), device_id)
    ELSE <<[Head(q) EXCEPT !.deviceID = device_id]>> \o Tagged(Tail(q), device_id)

\* _parse_notification(root): the SDK info message, the updates wrapper (one
\* result is returned as it is, several are packed into one 'multipleUpdates'
\* notification), the known update types; None for anything else.
RECURSIVE parse_notification(_)
parse_notification(root) ==
    IF root.tag = "SoundTouchSdkInfo"
    THEN Notification("SoundTouchSdkInfo", "", <<>>)
    ELSE IF root.tag = "updates"
    THEN LET parsed == [i \in 1..Len(root.children) |->
                            parse_notification(root.children[i])]
             results == Tagged(parsed, root.deviceID)
         IN  IF AnyRaised(parsed) THEN Raised
             ELSE IF Len(results) = 1 THEN results[1]
             ELSE IF Len(results) > 1
             THEN Notification("multipleUpdates", root.deviceID, results)
             ELSE None
    ELSE IF root.tag \in NumericTags
    THEN (IF root.ok THEN Notification(root.tag, "", <<>>) ELSE Raised)
    ELSE IF root.tag \in PlainTags
    THEN Notification(root.tag, "", <<>>)
    ELSE None

\* The frames a device sends: wrappers with no, one and two children, the
\* SDK info message, text that is not XML.
Updates(children) == Element("updates", "D1", children, TRUE)

FrameInputs ==
    { Updates(<<>>),
      Updates(<<Leaf("volumeUpdated", TRUE)>>),
      Updates(<<Leaf("volumeUpdated", FALSE)>>),
      Updates(<<Leaf("info", TRUE)>>),
      Updates(<<Leaf("volumeUpdated", TRUE), Leaf("nowPlayingUpdated", TRUE)>>),
      Updates(<<Leaf("nowPlayingUpdated", TRUE), Leaf("info", TRUE)>>),
      Leaf("SoundTouchSdkInfo", TRUE),
      Leaf("not-xml", FALSE) }

\* ET.fromstring raises ParseError for text that is not XML.
WellFormed(frame) == frame.tag # "not-xml"

\* The event types of the recognised children of an updates frame, in order.
RECURSIVE ChildTypes(_)
ChildTypes(children) ==
    IF children = <<>> THEN <<>>
    ELSE (IF Head(children).tag \in NumericTags \cup PlainTags
          THEN <<Head(children).tag>> ELSE <<>>) \o ChildTypes(Tail(children))

-----------------------------------------------------------------------------
(* SoundTouchWebSocket: the client *)

CallbackTypes == {"volumeUpdated", "nowPlayingUpdated"}

ConnectPolls == 50

MaxWait == 2

\* The timeout argument of get_next_event: None, or a number of ticks.
TimeoutArgs ==
    [forever : {TRUE}, ticks : {0}] \cup [forever : {FALSE}, ticks : 0..MaxWait]

\* No call of get_next_event() is under way.
NoGetter == [ret |-> "none", timeout |-> [forever |-> FALSE, ticks |-> 0],
             pc |-> "idle", waited |-> 0]

\* The client after __init__.
WsInit ==
    [ connected |-> FALSE,
      running |-> FALSE,
      sock |-> "none",            \* none, connecting, open, closed
      callbacks |-> {},
      event_queue |-> <<>>,
      delivered |-> <<>>,         \* the notifications handed to callbacks
      conn_pc |-> "idle",         \* connect(): idle or polling
      polls |-> 0,
      conn_ret |-> "none",
      disconnected |-> FALSE,     \* disconnect() has returned, no connect() since
      frames |-> 0,
      getter |-> NoGetter ]       \* the caller inside get_next_event()

\* The receive thread outside on_message.
RxIdle == [frame |-> Leaf("", TRUE), pc |-> "idle", notification |-> None,
           queued |-> <<>>, called |-> <<>>]

\* A close() that leaves the socket as it is.
Closed_left_open(sock) == sock

\* ws.close(): the socket is closed, the read loop ends.
Closed(sock) == IF sock = "none" THEN "none" ELSE "closed"

\* connect(): returns True at once when connected; otherwise creates the
\* WebSocketApp, starts its thread and begins to poll the connected flag.
Connect ==
    /\ ws.conn_pc = "idle"
    /\ ws.frames < MaxFrames
    /\ ws' = IF ws.connected
             THEN [ws EXCEPT !.conn_ret = "True", !.disconnected = FALSE]
             ELSE [ws EXCEPT !.sock = "connecting", !.conn_pc = "polling",
                             !.polls = 0, !.conn_ret = "none",
                             !.disconnected = FALSE]
    /\ UNCHANGED <<rx, ctlVars, playerVars, scanVars>>

\* One round of the wait loop: connected ends it with True, otherwise the
\* caller sleeps 0.1 s.
ConnectPoll ==
    /\ ws.conn_pc = "polling"
    /\ ws.polls < ConnectPolls
    /\ ws' = IF ws.connected
             THEN [ws EXCEPT !.running = TRUE, !.conn_pc = "idle", !.polls = 0,
                             !.conn_ret = "True"]
             ELSE [ws EXCEPT !.polls = @ + 1]
    /\ UNCHANGED <<rx, ctlVars, playerVars, scanVars>>

\* The wait loop ran out: the socket is closed and connect() returns False.
ConnectTimeout ==
    /\ ws.conn_pc = "polling"
    /\ ws.polls = ConnectPolls
    /\ ws' = [ws EXCEPT !.sock = Closed(@), !.conn_pc = "idle", !.polls = 0,
                        !.conn_ret = "False"]
    /\ UNCHANGED <<rx, ctlVars, playerVars, scanVars>>

\* A disconnect() that leaves the connected flag to on_close.
Disconnect_keeps_connected ==
    /\ ws.conn_pc = "idle"
    /\ ws' = [ws EXCEPT !.running = FALSE, !.sock = Closed(@),
                        !.disconnected = TRUE]
    /\ UNCHANGED <<rx, ctlVars, playerVars, scanVars>>

\* disconnect(): running = False, ws.close(), connected = False.
Disconnect ==
    /\ ws.conn_pc = "idle"
    /\ ws' = [ws EXCEPT !.running = FALSE, !.sock = Closed(@),
                        !.connected = FALSE, !.disconnected = TRUE]
    /\ UNCHANGED <<rx, ctlVars, playerVars, scanVars>>

\* add_callback(event_type, callback)
AddCallback ==
    \E event_type \in CallbackTypes :
        /\ event_type \notin ws.callbacks
        /\ ws' = [ws EXCEPT !.callbacks = @ \cup {event_type}]
        /\ UNCHANGED <<rx, ctlVars, playerVars, scanVars>>

\* remove_callback(event_type)
RemoveCallback ==
    \E event_type \in CallbackTypes :
        /\ event_type \in ws.callbacks
        /\ ws' = [ws EXCEPT !.callbacks = @ \ {event_type}]
        /\ UNCHANGED <<rx, ctlVars, playerVars, scanVars>>

\* The channel opens: on_open sets connected.
OnOpen ==
    /\ ws.sock = "connecting"
    /\ ws' = [ws EXCEPT !.sock = "open", !.connected = TRUE]
    /\ UNCHANGED <<rx, ctlVars, playerVars, scanVars>>

\* The channel fails to open or breaks: on_error / on_close clear connected.
OnError ==
    /\ ws.sock \in {"connecting", "open"}
    /\ ws' = [ws EXCEPT !.sock = "closed", !.connected = FALSE]
    /\ UNCHANGED <<rx, ctlVars, playerVars, scanVars>>

\* The read loop has ended after close(): on_close clears connected.
OnClose ==
    /\ ws.sock = "closed"
    /\ ws.connected
    /\ ws' = [ws EXCEPT !.connected = FALSE]
    /\ UNCHANGED <<rx, ctlVars, playerVars, scanVars>>

\* The read loop of run_forever takes a frame off the open socket and calls
\* on_message with it.
Receive ==
    \E frame \in FrameInputs :
        /\ ws.sock = "open"
        /\ rx.pc = "idle"
        /\ ws.frames < MaxFrames
        /\ rx' = [RxIdle EXCEPT !.pc = "on_message", !.frame = frame]
        /\ ws' = [ws EXCEPT !.frames = @ + 1]
        /\ UNCHANGED <<ctlVars, playerVars, scanVars>>

\* on_message, first half: the frame is parsed and the notification, if
\* there is one, is put on the queue. An exception ends the handler.
OnMessageParse ==
    /\ rx.pc = "on_message"
    /\ LET notification == IF WellFormed(rx.frame)
                           THEN parse_notification(rx.frame) ELSE Raised
       IN  IF notification.type \in {"None", "Raised"}
           THEN /\ rx' = [rx EXCEPT !.pc = "idle"]
                /\ UNCHANGED ws
           ELSE /\ rx' = [rx EXCEPT !.pc = "callback", !.notification = notification,
                                    !.queued = <<notification>>]
                /\ ws' = [ws EXCEPT !.event_queue = Append(@, notification)]
    /\ UNCHANGED <<ctlVars, playerVars, scanVars>>

\* on_message, second half: the callback registered for the notification's
\* type, if there is one, is called with it.
OnMessageCallback ==
    /\ rx.pc = "callback"
    /\ IF rx.notification.type \in ws.callbacks
       THEN /\ ws' = [ws EXCEPT !.delivered = Append(@, rx.notification)]
            /\ rx' = [rx EXCEPT !.pc = "idle", !.called = <<rx.notification>>]
       ELSE /\ rx' = [rx EXCEPT !.pc = "idle"]
            /\ UNCHANGED ws
    /\ UNCHANGED <<ctlVars, playerVars, scanVars>>

\* get_next_event(timeout): the caller enters event_queue.get(timeout=timeout).
GetNextEvent ==
    \E timeout \in TimeoutArgs :
        /\ ws.getter.pc = "idle"
        /\ ws' = [ws EXCEPT !.getter = [ret |-> "none", timeout |-> timeout,
                                        pc |-> "waiting", waited |-> 0]]
        /\ UNCHANGED <<rx, ctlVars, playerVars, scanVars>>

\* An event is on the queue: get() takes it off and the call returns it.
GetReturns ==
    /\ ws.getter.pc = "waiting"
    /\ ws.event_queue # <<>>
    /\ ws' = [ws EXCEPT !.event_queue = Tail(@),
                        !.getter = [@ EXCEPT !.pc = "idle", !.ret = "event"]]
    /\ UNCHANGED <<rx, ctlVars, playerVars, scanVars>>

\* The queue stayed empty for the timeout: get() raises Empty, the except
\* clause returns None.
GetTimesOut ==
    /\ ws.getter.pc = "waiting"
    /\ ws.event_queue = <<>>
    /\ ~ws.getter.timeout.forever
    /\ ws.getter.waited >= ws.getter.timeout.ticks
    /\ ws' = [ws EXCEPT !.getter = [@ EXCEPT !.pc = "idle", !.ret = "None"]]
    /\ UNCHANGED <<rx, ctlVars, playerVars, scanVars>>

\* A tick passes while the caller waits on the empty queue; the ticks are
\* counted up to one beyond the longest timeout.
GetWaits ==
    /\ ws.getter.pc = "waiting"
    /\ ws.event_queue = <<>>
    /\ ws.getter.timeout.forever \/ ws.getter.waited < ws.getter.timeout.ticks
    /\ ws.getter.waited <= MaxWait
    /\ ws' = [ws EXCEPT !.getter = [@ EXCEPT !.waited = @ + 1]]
    /\ UNCHANGED <<rx, ctlVars, playerVars, scanVars>>

-----------------------------------------------------------------------------
(* SoundTouchDiscovery: the probe of one host *)

Chars_soundtouch == <<"s", "o", "u", "n", "d", "t", "o", "u", "c", "h">>
Chars_bose == <<"b", "o", "s", "e">>
Chars_Unknown == <<"U", "n", "k", "n", "o", "w", "n">>

\* What /info answers: text that parses as XML or not, with or without a
\* type element and a margeAccountUUID element.
InfoBody(wellformed, has_type, type, name, marge) ==
    [type |-> type, wellformed |-> wellformed, has_type |-> has_type,
     name |-> name, marge |-> marge]

Type_SoundTouch10 == <<"S", "o", "u", "n", "d", "T", "o", "u", "c", "h", " ", "1", "0">>
Type_BOSE == <<"B", "O", "S", "E">>
Type_Sonos == <<"S", "o", "n", "o", "s">>
Name_Bose == <<"B", "o", "s", "e">>
Name_TV == <<"T", "V">>

NoBody == InfoBody(FALSE, FALSE, <<>>, <<>>, FALSE)

InfoBodies ==
    { InfoBody(TRUE, TRUE, Type_SoundTouch10, Name_TV, FALSE),
      InfoBody(TRUE, TRUE, Type_BOSE, Name_TV, FALSE),
      InfoBody(TRUE, TRUE, Type_Sonos, Name_TV, FALSE),
      InfoBody(TRUE, TRUE, Type_Sonos, Name_TV, TRUE),
      InfoBody(TRUE, TRUE, Type_Sonos, Name_Bose, FALSE),
      InfoBody(TRUE, FALSE, <<>>, Name_TV, FALSE),
      InfoBody(TRUE, FALSE, <<>>, Name_TV, TRUE),
      NoBody }

\* requests.get(url, timeout=2) raises, or returns a status and a body.
InfoResponses ==
    { [exc |-> exc, code |-> 0, body |-> NoBody] : exc \in Exceptions }
    \cup { [exc |-> "none", code |-> code, body |-> body] :
            code \in {200, 404}, body \in InfoBodies }

\* _is_soundtouch_device(device_type, root)
is_soundtouch_device(device_type, marge) ==
    \/ StrContains(Chars_soundtouch, StrLower(device_type))
    \/ StrContains(Chars_bose, StrLower(device_type))
    \/ marge

\* _parse_info_response(xml_text, ip): the device to report, if any. Of the
\* dict it returns the model keeps the address; the rest copies the payload.
parse_info_response(body, ip) ==
    IF ~body.wellformed THEN <<>>
    ELSE LET device_type == IF body.has_type THEN body.type ELSE Chars_Unknown
         IN  IF is_soundtouch_device(device_type, body.marge)
             THEN <<[ip |-> ip]>>
             ELSE <<>>

\* A probe that reads the body whatever the status is.
scan_host_any_status(ip, response) ==
    IF response.exc # "none" THEN <<>>
    ELSE parse_info_response(response.body, ip)

\* _scan_host(ip): what the probe appends to self.devices.
scan_host(ip, response) ==
    IF response.exc # "none" THEN <<>>
    ELSE IF response.code = 200 THEN parse_info_response(response.body, ip)
    ELSE <<>>

-----------------------------------------------------------------------------
(* SoundTouchDiscovery: scan() *)

\* time.sleep(0.1) is one tick of the clock.
TicksPerSecond == 10
WaitLimit == 50

ScanIdle ==
    [ ret |-> "none",         \* none, devices, empty
      timeout |-> 0,          \* in ticks
      pc |-> "idle",          \* idle, loop, throttle, join, done
      max_threads |-> 0,
      others |-> 0,           \* live threads besides the caller and the probes
      hosts |-> 0,            \* len(ips)
      next |-> 1,             \* the host the loop is at
      started |-> 0,          \* len(threads)
      wait_count |-> 0,
      elapsed |-> 0,          \* time.time() - start_time, in ticks
      remaining_time |-> 0,
      join_i |-> 1,
      returned |-> 0 ]        \* len() of the list at the moment scan() returned it

Running == {h \in 1..MaxHosts : probe[h] = "running"}

\* len(threading.enumerate()): the caller, the probes alive, other threads.
LiveThreads == 1 + Cardinality(Running) + scan.others

Later(sc) == [sc EXCEPT !.elapsed = IF @ > sc.timeout THEN @ ELSE @ + 1]

\* The join phase begins: remaining_time is computed once, the clock is
\* not read again.
BeginJoin(sc) ==
    [sc EXCEPT !.pc = "join", !.remaining_time = sc.timeout - sc.elapsed,
               !.join_i = 1, !.elapsed = 0, !.wait_count = 0]

\* scan(max_threads, timeout) is called on a scanner whose network has
\* hosts addresses, or is not a network at all (hosts = -1: ValueError).
ScanStart ==
    \E max_threads \in 1..MaxThreads, timeout \in {1}, others \in {0, 1},
       hosts \in (0 - 1)..MaxHosts :
        /\ scan.pc = "idle"
        /\ scan' = IF hosts < 0
                   THEN [scan EXCEPT !.pc = "done", !.ret = "empty"]
                   ELSE [scan EXCEPT !.pc = "loop", !.max_threads = max_threads,
                                     !.timeout = timeout * TicksPerSecond,
                                     !.others = others, !.hosts = hosts]
        /\ UNCHANGED <<probe, devices, quiet, ctlVars, playerVars, wsVars>>

\* for ip in ips: past the last host, or past the timeout, the loop ends;
\* otherwise the throttle wait begins.
LoopCheck ==
    /\ scan.pc = "loop"
    /\ scan' = IF scan.next > scan.hosts \/ scan.elapsed > scan.timeout
               THEN BeginJoin(scan)
               ELSE [scan EXCEPT !.pc = "throttle", !.wait_count = 0]
    /\ UNCHANGED <<probe, devices, quiet, ctlVars, playerVars, wsVars>>

\* A loop that starts the thread and stays at the same host.
Started_same_host(sc) ==
    [sc EXCEPT !.pc = "loop", !.started = @ + 1, !.wait_count = 0]

\* thread.start(); threads.append(thread)
Started(sc) ==
    [sc EXCEPT !.pc = "loop", !.next = @ + 1, !.started = @ + 1, !.wait_count = 0]

\* The throttle: while more than max_threads + 1 threads are alive, sleep
\* and count; after more than WaitLimit sleeps, or when the count is low
\* enough, the probe is started.
Throttle ==
    /\ scan.pc = "throttle"
    /\ IF LiveThreads > scan.max_threads + 1
       THEN IF scan.wait_count + 1 > WaitLimit
            THEN /\ scan' = Started(Later(scan))
                 /\ probe' = [probe EXCEPT ![scan.next] = "running"]
            ELSE /\ scan' = [Later(scan) EXCEPT !.wait_count = @ + 1]
                 /\ UNCHANGED probe
       ELSE /\ scan' = Started(scan)
            /\ probe' = [probe EXCEPT ![scan.next] = "running"]
    /\ UNCHANGED <<devices, quiet, ctlVars, playerVars, wsVars>>

\* The join phase: each thread is joined in turn unless no time remained;
\* then self.devices is returned. thread.join(timeout=...) returns when the
\* thread has ended or when its share of the remaining time has passed;
\* which of the two comes first for a running probe is up to the probed host.
Join ==
    /\ scan.pc = "join"
    /\ scan' = IF scan.join_i > scan.started \/ scan.remaining_time <= 0
               THEN [scan EXCEPT !.pc = "done", !.ret = "devices",
                                 !.returned = Len(devices)]
               ELSE [scan EXCEPT !.join_i = @ + 1]
    /\ UNCHANGED <<probe, devices, quiet, ctlVars, playerVars, wsVars>>

\* The clock moves on while scan() is between two rounds of its loop; inside
\* a round the time that passes is the time slept.
Tick ==
    /\ scan.pc = "loop"
    /\ scan.elapsed <= scan.timeout
    /\ scan' = Later(scan)
    /\ UNCHANGED <<probe, devices, quiet, ctlVars, playerVars, wsVars>>

\* The answer says nothing of the vendor: neither type nor name mentions it
\* and there is no account marker.
MentionsVendor(text) ==
    \/ StrContains(Chars_soundtouch, StrLower(text))
    \/ StrContains(Chars_bose, StrLower(text))

CountsForNothing(response) ==
    \/ response.exc # "none"
    \/ response.code # 200
    \/ ~response.body.wellformed
    \/ /\ ~(response.body.has_type /\ MentionsVendor(response.body.type))
       /\ ~MentionsVendor(response.body.name)
       /\ ~response.body.marge

\* What _scan_host appends for each host and response, and whether the
\* response counts for nothing.
Appended == [h \in 1..MaxHosts, response \in InfoResponses |-> scan_host(h, response)]
Nothing == [response \in InfoResponses |-> CountsForNothing(response)]

\* The probe of host h ends with some response: _scan_host runs to its end.
\* A probe whose connection was refused is remembered as such.
ProbeFinish ==
    \E h \in 1..MaxHosts, response \in InfoResponses :
        /\ probe[h] = "running"
        /\ probe' = [probe EXCEPT ![h] = IF response.exc = "ConnectionError"
                                         THEN "refused" ELSE "finished"]
        /\ devices' = devices \o Appended[h, response]
        /\ quiet' = IF Nothing[response] THEN quiet \cup {h} ELSE quiet
        /\ UNCHANGED <<scan, ctlVars, playerVars, wsVars>>

-----------------------------------------------------------------------------
(* SoundTouchGroupManager *)

\* The devices handed to the manager; ip and mac of device d are both d.
Devices == {1, 2}

MaxZones == 1
MaxGroups == 2
MaxSlaves == Cardinality(Devices)

\* The slave lists a caller builds: every list of devices up to MaxSlaves long.
SlaveLists == UNION {[1..n -> Devices] : n \in 0..MaxSlaves}

\* What the network does to one request of the manager.
ZoneResponses ==
    {r \in Responses : r.code \in {0, 200, 500} /\ r.exc \in {"none", "ConnectionError"}}

\* A request of the controller made for the device at ip.
ZoneRequest(ip, path, body, resp) ==
    [path |-> path, body |-> body, resp |-> resp, ip |-> ip]

RECURSIVE At(_, _)
At(ip, reqs) ==
    IF reqs = <<>> THEN <<>>
    ELSE <<ZoneRequest(ip, Head(reqs).path, Head(reqs).body, Head(reqs).resp)>>
         \o At(ip, Tail(reqs))

ZoneBody(master_mac, members) == [members |-> members, master |-> master_mac]

\* set_zone, add_zone_slave, remove_zone_slave of the controller at ip: one
\* post each, True on status 200, False on any other status or exception.
set_zone(ip, master_mac, members, resp) ==
    [ret |-> resp.exc = "none" /\ resp.code = 200,
     reqs |-> <<ZoneRequest(ip, "/setZone", ZoneBody(master_mac, members), resp)>>]

\* An add_zone_slave that posts to the device being added.
add_zone_slave_at_slave(ip, master_mac, slave_mac, resp) ==
    [ret |-> resp.exc = "none" /\ resp.code = 200,
     reqs |-> <<ZoneRequest(slave_mac, "/addZoneSlave", ZoneBody(master_mac, <<slave_mac>>), resp)>>]

add_zone_slave(ip, master_mac, slave_mac, resp) ==
    [ret |-> resp.exc = "none" /\ resp.code = 200,
     reqs |-> <<ZoneRequest(ip, "/addZoneSlave", ZoneBody(master_mac, <<slave_mac>>), resp)>>]

remove_zone_slave(ip, master_mac, slave_mac, resp) ==
    [ret |-> resp.exc = "none" /\ resp.code = 200,
     reqs |-> <<ZoneRequest(ip, "/removeZoneSlave", ZoneBody(master_mac, <<slave_mac>>), resp)>>]

\* A group as create_group stores it.  slaves_id tells which list object
\* 'slaves' is bound to: groups with equal slaves_id hold the same list, and the
\* id is the position of the first group holding it.
Group(master_device, slave_devices, id) ==
    [master |-> master_device, slaves |-> slave_devices,
     all_devices |-> <<master_device>> \o slave_devices, slaves_id |-> id]

\* create_group(master_device, slave_devices): id names the list object passed.
create_group(gs, master_device, slave_devices, id, resp) ==
    LET out == set_zone(master_device, master_device, slave_devices, resp)
    IN  [groups |-> IF out.ret THEN Append(gs, Group(master_device, slave_devices, id))
                    ELSE gs,
         ret |-> out.ret, reqs |-> out.reqs]

\* self.groups[group_index] after the check group_index >= len(self.groups):
\* the position in 1..n, or 0 where Python raises IndexError.
Position(n, group_index) ==
    IF group_index >= 0 THEN group_index + 1
    ELSE IF n + group_index >= 0 THEN n + group_index + 1
    ELSE 0

Refused(gs) == [groups |-> gs, ret |-> FALSE, reqs |-> <<>>]

\* list.append on the object 'slaves' of group g is bound to.
AppendSlave(gs, g, device) ==
    [j \in 1..Len(gs) |->
        [gs[j] EXCEPT !.slaves = IF gs[j].slaves_id = gs[g].slaves_id
                                 THEN Append(@, device) ELSE @,
                      !.all_devices = IF j = g THEN Append(@, device) ELSE @]]

\* add_to_group with the append moved in front of the test of the answer.
add_to_group_eager(gs, group_index, device, resp) ==
    IF group_index >= Len(gs) THEN Refused(gs)
    ELSE IF Position(Len(gs), group_index) = 0 THEN Refused(gs)
    ELSE LET g == Position(Len(gs), group_index)
             out == add_zone_slave(gs[g].master, gs[g].master, device, resp)
         IN  [groups |-> AppendSlave(gs, g, device),
              ret |-> out.ret, reqs |-> out.reqs]

add_to_group(gs, group_index, device, resp) ==
    IF group_index >= Len(gs) THEN Refused(gs)
    ELSE IF Position(Len(gs), group_index) = 0 THEN Refused(gs)
    ELSE LET g == Position(Len(gs), group_index)
             out == add_zone_slave(gs[g].master, gs[g].master, device, resp)
         IN  [groups |-> IF out.ret THEN AppendSlave(gs, g, device) ELSE gs,
              ret |-> out.ret, reqs |-> out.reqs]

\* [d for d in slaves if d['mac'] != device['mac']]
RECURSIVE Others(_, _)
Others(slaves, device) ==
    IF slaves = <<>> THEN <<>>
    ELSE IF Head(slaves) = device THEN Others(Tail(slaves), device)
    ELSE <<Head(slaves)>> \o Others(Tail(slaves), device)

\* group['slaves'] = <a new list>: group g leaves the groups it shared its list
\* with, which keep the old object.
Rebind(gs, g, slave_devices) ==
    LET sharing == {j \in 1..Len(gs) : j # g /\ gs[j].slaves_id = gs[g].slaves_id}
        first == CHOOSE j \in sharing : \A k \in sharing : j <= k
    IN  [j \in 1..Len(gs) |->
            IF j = g THEN Group(gs[g].master, slave_devices, g)
            ELSE IF j \in sharing THEN [gs[j] EXCEPT !.slaves_id = first]
            ELSE gs[j]]

remove_from_group(gs, group_index, device, resp) ==
    IF group_index >= Len(gs) THEN Refused(gs)
    ELSE IF Position(Len(gs), group_index) = 0 THEN Refused(gs)
    ELSE LET g == Position(Len(gs), group_index)
             out == remove_zone_slave(gs[g].master, gs[g].master, device, resp)
         IN  [groups |-> IF out.ret THEN Rebind(gs, g, Others(gs[g].slaves, device))
                         ELSE gs,
              ret |-> out.ret, reqs |-> out.reqs]

\* The effect of one completed call of the manager.
Managed(op, args, out) ==
    /\ groups' = out.groups
    /\ call' = [op |-> op, args |-> args, ret |-> out.ret, reqs |-> out.reqs,
                msgs |-> <<>>]
    /\ UNCHANGED <<http_log, playerVars, wsVars, scanVars>>

GroupIndices(limit) == (0 - limit - 1)..limit

\* create_group with a list the caller built, or with the list of a group the
\* manager handed out through get_groups().
CreateGroup(limit) ==
    /\ Len(groups) < limit
    /\ \E master_device \in Devices, resp \in ZoneResponses :
          \/ \E slave_devices \in SlaveLists :
                Managed("create_group", <<master_device, slave_devices>>,
                        create_group(groups, master_device, slave_devices,
                                     Len(groups) + 1, resp))
          \/ \E g \in 1..Len(groups) :
                Managed("create_group", <<master_device, groups[g].slaves>>,
                        create_group(groups, master_device, groups[g].slaves,
                                     groups[g].slaves_id, resp))

AddToGroup(limit) ==
    \E group_index \in GroupIndices(limit), device \in Devices, resp \in ZoneResponses :
        /\ \A g \in 1..Len(groups) : Len(groups[g].slaves) < MaxSlaves
        /\ Managed("add_to_group", <<group_index, device>>,
                   add_to_group(groups, group_index, device, resp))

RemoveFromGroup(limit) ==
    \E group_index \in GroupIndices(limit), device \in Devices, resp \in ZoneResponses :
        Managed("remove_from_group", <<group_index, device>>,
                remove_from_group(groups, group_index, device, resp))

\* The keys sent to a group: known ones and an unknown one.
CommandKeys ==
    { <<"p", "l", "a", "y">>, <<"S", "t", "o", "p">>, <<"e", "j", "e", "c", "t">> }

\* The answers to the press and the release: the release has an answer of its
\* own only when the press was accepted.
KeyAnswers ==
    {resps \in ZoneResponses \X ZoneResponses : Ok200(resps[1]) \/ resps[2] = resps[1]}

\* The value sent for each key, "none" for an unknown key.
CommandKeyValue ==
    [key \in CommandKeys |-> IF StrLower(key) \in DOMAIN KEYS
                             THEN KEYS[StrLower(key)] ELSE "none"]

\* A send_command_to_group that sends the key to the last member of the group.
send_command_to_last(gs, group_index, key, resps) ==
    IF group_index >= Len(gs) THEN Refused(gs)
    ELSE IF Position(Len(gs), group_index) = 0 THEN Refused(gs)
    ELSE LET g == Position(Len(gs), group_index)
             out == send_key(key, "Gabbo", resps)
         IN  [groups |-> gs, ret |-> out.ret,
              reqs |-> At(gs[g].all_devices[Len(gs[g].all_devices)], out.reqs)]

\* send_command_to_group(group_index, key): send_key of a controller built for
\* the master's address.
send_command_to_group(gs, group_index, key, resps) ==
    IF group_index >= Len(gs) THEN Refused(gs)
    ELSE IF Position(Len(gs), group_index) = 0 THEN Refused(gs)
    ELSE LET g == Position(Len(gs), group_index)
             out == send_key(key, "Gabbo", resps)
         IN  [groups |-> gs, ret |-> out.ret, reqs |-> At(gs[g].master, out.reqs)]

SendCommandToGroup(limit) ==
    \E group_index \in GroupIndices(limit), key \in CommandKeys, resps \in KeyAnswers :
        Managed("send_command_to_group", <<group_index, key>>,
                send_command_to_group(groups, group_index, key, resps))

\* The levels set on a group: the highest one and the first beyond it.
GroupVolumes == {VolMax, VolMax + 1}

\* The answers of the members to the volume request, in the order asked.
VolumeAnswers == [1..(MaxSlaves + 1) -> {r \in ZoneResponses : r.exc = "none"}]

\* for device in group['all_devices']: one set_volume of a controller built for
\* the device; a member that fails turns success False and the loop goes on.
RECURSIVE volume_loop(_, _, _)
volume_loop(all_devices, volume, resps) ==
    IF all_devices = <<>> THEN [ret |-> TRUE, reqs |-> <<>>]
    ELSE LET out == set_volume(volume, FALSE, Head(resps))
             rest == volume_loop(Tail(all_devices), volume, Tail(resps))
         IN  [ret |-> out.ret /\ rest.ret,
              reqs |-> At(Head(all_devices), out.reqs) \o rest.reqs]

set_group_volume(gs, group_index, volume, resps) ==
    IF group_index >= Len(gs) THEN Refused(gs)
    ELSE IF Position(Len(gs), group_index) = 0 THEN Refused(gs)
    ELSE LET g == Position(Len(gs), group_index)
             out == volume_loop(gs[g].all_devices, volume, resps)
         IN  [groups |-> gs, ret |-> out.ret, reqs |-> out.reqs]

SetGroupVolume(limit) ==
    \E group_index \in GroupIndices(limit), volume \in GroupVolumes, resps \in VolumeAnswers :
        Managed("set_group_volume", <<group_index, volume>>,
                set_group_volume(groups, group_index, volume, resps))

-----------------------------------------------------------------------------
(* SoundTouchController queries *)

Queries ==
    {"is_reachable", "get_info", "get_nowplaying", "get_volume", "get_bass",
     "get_sources", "get_presets", "get_zone"}

QueryPath ==
    [name \in Queries |->
        CASE name \in {"is_reachable", "get_info"} -> "/info"
          [] name = "get_nowplaying" -> "/now_playing"
          [] name = "get_volume" -> "/volume"
          [] name = "get_bass" -> "/bass"
          [] name = "get_sources" -> "/sources"
          [] name = "get_presets" -> "/presets"
          [] name = "get_zone" -> "/getZone"]

\* What a body is to the code reading it: XML with the elements asked for, XML
\* without them, XML whose number texts are no numbers, and text that is no XML.
Bodies == {"elements", "no_elements", "not_a_number", "not_xml"}

QueryResponses ==
    [exc : {"none"}, code : StatusCodes, body : Bodies]
        \cup [exc : Exceptions, code : {0}, body : {"none"}]

\* The try block of a query: the kind of value it returns, or "raised" where
\* requests.get, ET.fromstring or int() raises.
query_body(name, response) ==
    IF response.exc # "none" THEN "raised"
    ELSE IF name = "is_reachable"
    THEN (IF response.code = 200 THEN "True" ELSE "False")
    ELSE IF response.code # 200 THEN "None"
    ELSE IF response.body = "not_xml" THEN "raised"
    ELSE IF name \in {"get_volume", "get_bass"} /\ response.body = "not_a_number"
    THEN "raised"
    ELSE IF name \in {"get_sources", "get_presets"} /\ response.body = "no_elements"
    THEN "None"
    ELSE "value"

\* A query without its except clause.
query_unguarded(name, response) ==
    [ret |-> query_body(name, response),
     reqs |-> <<Request(QueryPath[name], "", response)>>, msgs |-> <<>>]

\* The query with its 'except Exception: return None' (False in is_reachable).
query(name, response) ==
    [ret |-> IF query_body(name, response) # "raised" THEN query_body(name, response)
             ELSE IF name = "is_reachable" THEN "False" ELSE "None",
     reqs |-> <<Request(QueryPath[name], "", response)>>, msgs |-> <<>>]

Query ==
    \E name \in Queries, response \in QueryResponses :
        Complete(name, <<>>, query(name, response))

-----------------------------------------------------------------------------
(* SoundTouchController.select_source_with_location *)

SourceInputs == {"UPNP", "STORED_MUSIC"}
LocationInputs == {"http://server/track.mp3", ""}

ContentItem(source, location) == [source |-> source, location |-> location]

PlayKey == <<"p", "l", "a", "y">>

\* select_source_with_location(source, source_account, location): the post to
\* /select and, on status 200, send_key('play') twice, whose results are not
\* looked at; answers are the device's answers to the two presses and releases.
select_source_with_location(source, location, resp, answers) ==
    LET select == Request("/select", ContentItem(source, location), resp)
    IN  IF resp.exc = "none" /\ resp.code = 200
        THEN [ret |-> TRUE,
              reqs |-> <<select>> \o send_key(PlayKey, "Gabbo", answers[1]).reqs
                                  \o send_key(PlayKey, "Gabbo", answers[2]).reqs,
              msgs |-> <<>>]
        ELSE [ret |-> FALSE, reqs |-> <<select>>, msgs |-> <<>>]

SelectSourceWithLocation ==
    \E source \in SourceInputs, location \in LocationInputs, resp \in Responses,
       answers \in KeyAnswers \X KeyAnswers :
        Complete("select_source_with_location", <<source, location>>,
                 select_source_with_location(source, location, resp, answers))

-----------------------------------------------------------------------------
(* SoundTouchController.play_url_dlna, play_dlna_track_from_server *)

\* A URL by what the method looks at: how it starts and how it ends.
DlnaUrls ==
    [scheme : {"http://", "https://", ""}, ext : {".mp3", ".flac", ".wav", ".m4a", ".ogg"}]

protocol_info(url) ==
    CASE url.ext = ".flac" -> "http-get:*:audio/flac:*"
      [] url.ext = ".wav" -> "http-get:*:audio/wav:*"
      [] url.ext = ".m4a" -> "http-get:*:audio/mp4:*"
      [] url.ext = ".ogg" -> "http-get:*:audio/ogg:*"
      [] OTHER -> "http-get:*:audio/mpeg;DLNA.ORG_PN=MP3"

\* One SOAP command of DLNAHelper: True on status 200; an exception is printed
\* and gives False.
soap(action, body, resp) ==
    [ret |-> resp.exc = "none" /\ resp.code = 200,
     reqs |-> <<Request("/AVTransport/Control", <<action, body>>, resp)>>,
     msgs |-> IF resp.exc # "none" THEN <<"[DLNA] " \o action \o " error">> ELSE <<>>]

\* play_url_dlna(url): set the transport URI, then play.
play_url_dlna(url, r_set, r_play) ==
    IF url.scheme # "http://"
    THEN [ret |-> FALSE, reqs |-> <<>>, msgs |-> <<>>]
    ELSE LET uri == soap("SetAVTransportURI", protocol_info(url), r_set)
             play == soap("Play", "", r_play)
         IN  IF ~uri.ret THEN [ret |-> FALSE, reqs |-> uri.reqs, msgs |-> uri.msgs]
             ELSE IF ~play.ret
             THEN [ret |-> FALSE, reqs |-> uri.reqs \o play.reqs, msgs |-> play.msgs]
             ELSE [ret |-> TRUE, reqs |-> uri.reqs \o play.reqs,
                   msgs |-> <<"DLNA playback started">>]

\* play_dlna_track_from_server(dlna_server_ip): the first playable track of the
\* server, found or not, then the same two steps, each failure printed.
play_dlna_track_from_server(found, r_set, r_play) ==
    IF ~found
    THEN [ret |-> FALSE, reqs |-> <<>>, msgs |-> <<"[DLNA] No playable tracks found">>]
    ELSE LET uri == soap("SetAVTransportURI", "", r_set)
             play == soap("Play", "", r_play)
         IN  IF ~uri.ret
             THEN [ret |-> FALSE, reqs |-> uri.reqs,
                   msgs |-> <<"[DLNA] Found track">> \o uri.msgs
                            \o <<"[DLNA] Failed to set transport URI">>]
             ELSE IF ~play.ret
             THEN [ret |-> FALSE, reqs |-> uri.reqs \o play.reqs,
                   msgs |-> <<"[DLNA] Found track">> \o play.msgs
                            \o <<"[DLNA] Failed to send play command">>]
             ELSE [ret |-> TRUE, reqs |-> uri.reqs \o play.reqs,
                   msgs |-> <<"[DLNA] Found track", "[DLNA] Playback started">>]

PlayUrlDlna ==
    \E url \in DlnaUrls, r_set \in Responses, r_play \in Responses :
        Complete("play_url_dlna", <<url>>, play_url_dlna(url, r_set, r_play))

PlayDlnaTrackFromServer ==
    \E found \in BOOLEAN, r_set \in Responses, r_play \in Responses :
        Complete("play_dlna_track_from_server", <<found>>,
                 play_dlna_track_from_server(found, r_set, r_play))

-----------------------------------------------------------------------------
(* MediaPlayerWidget: the start of a stream *)

\* The URL _do_stream builds for the selected file on the local server.
StreamUrls == {url \in DlnaUrls : url.scheme = "http://" /\ url.ext \in {".mp3", ".flac"}}

\* The test requests of _do_stream failed: play_url_dlna is not called.
NoDlna == [ret |-> FALSE, reqs |-> <<>>, msgs |-> <<>>]

\* stream_to_device gets as far as _do_stream.
StartsNow(p) ==
    p.current_file # NoFile /\ p.controller /\ p.dlna_process /\ p.server_running

\* The user presses "stream": stream_to_device and, with the servers up,
\* _do_stream, whose test requests succeed or fail and whose play_url_dlna
\* gets the device's answers to its two SOAP commands.
StreamToDevice ==
    \E reachable \in BOOLEAN, url \in StreamUrls,
       r_set \in ZoneResponses, r_play \in ZoneResponses :
        LET out == IF reachable THEN play_url_dlna(url, r_set, r_play) ELSE NoDlna
            media == IF ~reachable THEN "unreachable"
                     ELSE IF out.ret THEN "accepted" ELSE "refused"
            p == [player EXCEPT !.media = media, !.reported = ""]
            q == stream_to_device(p)
            sent == IF StartsNow(p) THEN out ELSE NoDlna
        IN  /\ player' = q
            /\ track' = Observe(q, 0, 0)
            /\ call' = [op |-> "stream_to_device", args |-> <<url>>,
                        ret |-> sent.ret, reqs |-> sent.reqs, msgs |-> sent.msgs]
            /\ UNCHANGED <<http_log, groups, wsVars, scanVars>>

\* What get_nowplaying() returns to a poll: nothing, a playing track at its
\* start or further on, or a paused one.
PollInputs ==
    {NoStatus, <<"PLAY_STATE", 0, 0, 0>>, <<"PLAY_STATE", TrackMs - 600, TrackMs, 0>>,
     <<"PAUSE_STATE", 0, 0, 0>>}

\* fast_polling_timer fires on a device whose answers vary from poll to
\* poll; the get_nowplaying() call of the tick, if it comes to it, is the
\* controller's last call.
FastPollFires ==
    /\ player.fast_polling_active /\ player.fast_polling_left = 0
    /\ \E report \in PollInputs :
          LET q == poll_status_fast(
                       [player EXCEPT !.fast_polling_left = FastPollIntervalMs], report)
          IN  /\ player' = q
              /\ track' = Observe(q, 0, 0)
              /\ call' = IF player.polling_attempts + 1 >= MaxPollingAttempts
                            \/ ~player.controller
                         THEN call
                         ELSE [op |-> "get_nowplaying", args |-> <<>>,
                               ret |-> report # NoStatus, reqs |-> <<>>,
                               msgs |-> <<>>]
    /\ UNCHANGED <<http_log, groups, wsVars, scanVars>>

\* The user presses "stream" while no delayed start is pending.
StreamPressed ==
    /\ player.starts = <<>>
    /\ LET q == stream_to_device([player EXCEPT !.reported = "", !.retries = 0])
       IN  /\ player' = q
           /\ track' = Observe(q, 0, 0)
    /\ UNCHANGED <<ctlVars, wsVars, scanVars>>

\* The delayed call of the stream start is due and runs; a delayed call of
\* stream_to_device is counted, up to one beyond MaxRetries.
RetryFires ==
    /\ \E i \in 1..Len(player.starts) : player.starts[i].left = 0
    /\ LET i == Due(player.starts)
           fn == player.starts[i].fn
           rest == [player EXCEPT !.starts = Without(@, i)]
           q == IF fn = "stream_to_device"
                THEN stream_to_device([rest EXCEPT !.retries = Min(MaxRetries + 1, @ + 1)])
                ELSE do_stream(rest)
       IN  /\ player' = q
           /\ track' = Observe(q, 0, 0)
    /\ UNCHANGED <<ctlVars, wsVars, scanVars>>

-----------------------------------------------------------------------------
(* MediaPlayerWidget: listing the media server's files *)

\* The containers of an answer, each to be browsed at the given depth.
Below(children, depth) == [i \in 1..Len(children) |-> <<children[i], depth>>]

\* The first n entries of a list: list[:n].
FirstOf(list, n) == SubSeq(list, 1, Min(n, Len(list)))

\* _list_dlna_files: one Browse of the root; an answer with containers only
\* has its first TopContainers containers browsed, one with items lists them.
ListDlnaFiles ==
    /\ player.browse.phase = "idle"
    /\ \E dir \in Directories, ok \in BOOLEAN :
          player' = [player EXCEPT !.browse =
              [phase |-> "running", dir |-> dir,
               stack |-> IF ok THEN Below(FirstOf(dir[0], TopContainers), 1) ELSE <<>>,
               requests |-> 1, deepest |-> 0,
               files |-> IF ok /\ dir[0] = <<>> THEN 1 ELSE 0]]
    /\ UNCHANGED <<track, ctlVars, wsVars, scanVars>>

\* _browse_dlna_container(container_id): one Browse of the container; its
\* items are taken and every sub-container of the answer is browsed in turn,
\* one level further down. An answer other than 200 gives no files. The
\* requests are followed up to one beyond MaxBrowse.
BrowseDlnaContainer ==
    /\ player.browse.phase = "running"
    /\ player.browse.stack # <<>>
    /\ player.browse.requests <= MaxBrowse
    /\ \E ok \in BOOLEAN :
          LET b == player.browse
              container_id == Head(b.stack)[1]
              depth == Head(b.stack)[2]
              children == IF ok THEN b.dir[container_id] ELSE <<>>
          IN  player' = [player EXCEPT !.browse =
                  [b EXCEPT !.stack = Below(children, Min(MaxDepth + 1, depth + 1))
                                          \o Tail(b.stack),
                            !.requests = Min(MaxBrowse + 1, @ + 1),
                            !.deepest = IF depth > @ THEN depth ELSE @,
                            !.files = IF ok /\ children = <<>> THEN 1 ELSE @]]
    /\ UNCHANGED <<track, ctlVars, wsVars, scanVars>>

\* Nothing is left to browse: _list_dlna_files returns its list.
ListReturns ==
    /\ player.browse.phase = "running"
    /\ player.browse.stack = <<>>
    /\ player' = [player EXCEPT !.browse.phase = "idle"]
    /\ UNCHANGED <<track, ctlVars, wsVars, scanVars>>

-----------------------------------------------------------------------------
(* MediaPlayerWidget: the duration of a NowPlayingUpdated event *)

\* The two forms of the event: a dict, or a NowPlayingStatus object.
Representations == {"dict", "object"}

\* What the device reports as duration, what the DLNA database holds for the
\* title and what was read from the file's own metadata: each absent, or a
\* value of its own; the device may also report a negative number.
DeviceDurations == {0 - 1, 0, TrackMs}
DbDurations == {0, TrackMs - 1000}
FileDurations == {0, TrackMs - 2000}

\* NowPlayingStatus.duration: the device's value when positive, else the
\* fallback when positive, else 0.
duration(_duration, _duration_fallback) ==
    IF _duration > 0 THEN _duration
    ELSE IF _duration_fallback > 0 THEN _duration_fallback
    ELSE 0

\* The duration _on_now_playing_updated reads from the event: an object is
\* given the cached file duration as fallback first, a dict is read as it is.
event_duration(representation, duration_ms, cached_file_duration_ms) ==
    IF representation = "object"
    THEN duration(duration_ms, IF cached_file_duration_ms > 0
                               THEN cached_file_duration_ms ELSE 0)
    ELSE duration_ms

\* A NowPlayingUpdated event reaches the widget, in either form, with the
\* database and the file metadata holding a duration or not.
NowPlayingEvent ==
    \E representation \in Representations, play_status \in {"PLAY_STATE", "PAUSE_STATE"},
       position_ms \in {0, TrackMs - 2600},
       duration_ms \in DeviceDurations, db_duration_ms \in DbDurations,
       cached_file_duration_ms \in FileDurations :
        LET read == event_duration(representation, duration_ms, cached_file_duration_ms)
            q == on_now_playing_updated(player, play_status, position_ms,
                     resolve_duration(read, db_duration_ms, cached_file_duration_ms))
        IN  /\ player' = q
            /\ track' = Observe(q, 0, 0)
            /\ call' = [op |-> "_on_now_playing_updated",
                        args |-> <<representation, duration_ms, db_duration_ms,
                                   cached_file_duration_ms>>,
                        ret |-> TRUE, reqs |-> <<>>, msgs |-> <<>>]
            /\ UNCHANGED <<http_log, groups, wsVars, scanVars>>

-----------------------------------------------------------------------------
(* Specifications *)

CtlInit ==
    /\ http_log = <<>>
    /\ call = NoCall
    /\ groups = <<>>

TrackerInit ==
    /\ \E n \in 0..MaxTracks, has_controller \in BOOLEAN :
          \E index \in 0..(IF n = 0 THEN 0 ELSE n - 1) :
              player = PlayerInit(n, index, has_controller)
    /\ track = TrackInit

\* A widget with a folder open: a playlist, any file of it selected, with
\* or without a device, minidlna and the stream server, and a device that
\* sends no status.
NavigatorInit ==
    /\ \E n \in 0..MaxTracks, has_controller \in BOOLEAN,
          dlna_process \in BOOLEAN, server_running \in BOOLEAN,
          media \in MediaStates :
          \E index \in 0..(IF n = 0 THEN 0 ELSE n - 1) :
              player = [PlayerInit(n, index, has_controller)
                           EXCEPT !.dlna_process = dlna_process,
                                  !.server_running = server_running,
                                  !.media = media]
    /\ track = TrackInit

\* A widget nobody uses.
TrackerIdle ==
    /\ player = PlayerInit(0, 0, FALSE)
    /\ track = TrackInit

ClientInit ==
    /\ ws = WsInit
    /\ rx = RxIdle

ScannerInit ==
    /\ scan = ScanIdle
    /\ probe = [h \in 1..MaxHosts |-> "unstarted"]
    /\ devices = <<>>
    /\ quiet = {}

\* Everything as constructed, nothing in use yet.
Init == CtlInit /\ TrackerIdle /\ ClientInit /\ ScannerInit

\* The same with a playlist loaded into the widget.
InitTrack == CtlInit /\ TrackerInit /\ ClientInit /\ ScannerInit
InitNav == CtlInit /\ NavigatorInit /\ ClientInit /\ ScannerInit

\* A widget with a playlist and both servers up, with or without a device;
\* the device sends no status.
StreamerInit ==
    /\ \E n \in 0..MaxTracks, has_controller \in BOOLEAN :
          \E index \in 0..(IF n = 0 THEN 0 ELSE n - 1) :
              player = PlayerInit(n, index, has_controller)
    /\ track = TrackInit

InitStream == CtlInit /\ StreamerInit /\ ClientInit /\ ScannerInit

NextStream ==
    \/ StreamToDevice
    \/ PollStatusFast
    \/ TimePasses

SpecStream == InitStream /\ [][NextStream]_vars

NextDuration == NowPlayingEvent

SpecDuration == InitTrack /\ [][NextDuration]_vars

NextBrowse ==
    \/ ListDlnaFiles
    \/ BrowseDlnaContainer
    \/ ListReturns

SpecBrowse == Init /\ [][NextBrowse]_vars

\* A widget with a file selected and a device, with or without minidlna and
\* the stream server.
RetrierInit ==
    /\ \E n \in 1..MaxTracks, dlna_process \in BOOLEAN, server_running \in BOOLEAN,
          media \in MediaStates :
          \E index \in 0..(n - 1) :
              player = [PlayerInit(n, index, TRUE)
                           EXCEPT !.dlna_process = dlna_process,
                                  !.server_running = server_running,
                                  !.media = media]
    /\ track = TrackInit

InitRetry == CtlInit /\ RetrierInit /\ ClientInit /\ ScannerInit

NextRetry ==
    \/ StreamPressed
    \/ RetryFires
    \/ OnDlnaServerStarted
    \/ OnDlnaServerFailed
    \/ FastPollFires
    \/ TimePasses

SpecRetry == InitRetry /\ [][NextRetry]_vars

\* A widget with a playlist, a device and both servers up, whose stream
\* starts the device accepts.
PollerInit ==
    /\ \E n \in 2..MaxTracks :
          \E index \in 0..(n - 1) :
              player = [PlayerInit(n, index, TRUE) EXCEPT !.media = "accepted"]
    /\ track = TrackInit

InitPoll == CtlInit /\ PollerInit /\ ClientInit /\ ScannerInit

NextPoll ==
    \/ PlayNext
    \/ FastPollFires
    \/ MonitorTick
    \/ InterpolateTick
    \/ TimePasses

SpecPoll == InitPoll /\ [][NextPoll]_vars

NextZone == CreateGroup(MaxZones) \/ AddToGroup(MaxZones) \/ RemoveFromGroup(MaxZones)

SpecZone == Init /\ [][NextZone]_vars

NextCommand == CreateGroup(MaxZones) \/ SendCommandToGroup(MaxZones)

SpecCommand == Init /\ [][NextCommand]_vars

NextGroup ==
    \/ CreateGroup(MaxGroups)
    \/ AddToGroup(MaxGroups)
    \/ RemoveFromGroup(MaxGroups)
    \/ SetGroupVolume(MaxGroups)

SpecGroup == Init /\ [][NextGroup]_vars

NextQuery == Query

SpecQuery == Init /\ [][NextQuery]_vars

NextSelect == SetVolume \/ SelectSourceWithLocation

SpecSelect == Init /\ [][NextSelect]_vars

NextDlna == PlayUrlDlna \/ PlayDlnaTrackFromServer

SpecDlna == Init /\ [][NextDlna]_vars

NextKey == SendKey

SpecKey == Init /\ [][NextKey]_vars

NextVolume == SetVolume

SpecVolume == Init /\ [][NextVolume]_vars

NextWifi == AddWirelessProfile

SpecWifi == Init /\ [][NextWifi]_vars

NextTrack ==
    \/ NowPlayingUpdated
    \/ MonitorTick
    \/ InterpolateTick
    \/ AdvanceFires
    \/ TimePasses

SpecTrack == InitTrack /\ [][NextTrack]_vars

NextStop ==
    \/ NowPlayingUpdated
    \/ MonitorTick
    \/ InterpolateTick
    \/ AdvanceFires
    \/ StopPlayback
    \/ SendStopKey
    \/ TimePasses

SpecStop == InitTrack /\ [][NextStop]_vars

NextNav ==
    \/ PlayNext
    \/ PlayPrevious
    \/ SetController
    \/ SingleShotFires
    \/ PollStatusFast
    \/ OnDlnaServerStarted
    \/ OnDlnaServerFailed
    \/ TimePasses

SpecNav == InitNav /\ [][NextNav]_vars

NextWs ==
    \/ Connect
    \/ ConnectPoll
    \/ ConnectTimeout
    \/ Disconnect
    \/ AddCallback
    \/ RemoveCallback
    \/ OnOpen
    \/ OnError
    \/ OnClose
    \/ Receive
    \/ OnMessageParse
    \/ OnMessageCallback

SpecWs == Init /\ [][NextWs]_vars

NextPull ==
    \/ Connect
    \/ ConnectPoll
    \/ ConnectTimeout
    \/ Disconnect
    \/ OnOpen
    \/ OnError
    \/ OnClose
    \/ Receive
    \/ OnMessageParse
    \/ OnMessageCallback
    \/ GetNextEvent
    \/ GetReturns
    \/ GetTimesOut
    \/ GetWaits

SpecPull == Init /\ [][NextPull]_vars

NextScan ==
    \/ ScanStart
    \/ LoopCheck
    \/ Throttle
    \/ Join
    \/ Tick
    \/ ProbeFinish

SpecScan == Init /\ [][NextScan]_vars

NextBass == SetBass

SpecBass == Init /\ [][NextBass]_vars

-----------------------------------------------------------------------------
(* Properties of the controller *)

KnownKey(key) == StrLower(key) \in DOMAIN KEYS

\* C2 as stated: send_key for a known key sends exactly two requests, press
\* then release, and returns True only if both returned success.
C2_ExactlyTwoRequests ==
    (call.op = "send_key" /\ KnownKey(call.args[1])) =>
        /\ Len(call.reqs) = 2
        /\ call.reqs[1].body.state = "press"
        /\ call.reqs[2].body.state = "release"
        /\ call.ret = (Ok200(call.reqs[1].resp) /\ Ok200(call.reqs[2].resp))

\* C2 amended: send_key for a known key posts the press first and posts the
\* release only after the press returned 200 (one request when the press
\* failed, two otherwise, never a release before the press and never one
\* combined request); it returns True exactly when both returned 200.
C2_PressThenRelease ==
    (call.op = "send_key" /\ KnownKey(call.args[1])) =>
        /\ Len(call.reqs) \in {1, 2}
        /\ \A i \in 1..Len(call.reqs) :
              /\ call.reqs[i].path = "/key"
              /\ call.reqs[i].body.key = KEYS[StrLower(call.args[1])]
        /\ call.reqs[1].body.state = "press"
        /\ (Len(call.reqs) = 2) = Ok200(call.reqs[1].resp)
        /\ Len(call.reqs) = 2 => call.reqs[2].body.state = "release"
        /\ call.ret = (Len(call.reqs) = 2 /\ Ok200(call.reqs[2].resp))

\* A press that failed, so that no release followed, and False came back.
C2_Witness ==
    /\ call.op = "send_key"
    /\ KnownKey(call.args[1])
    /\ Len(call.reqs) = 1
    /\ call.reqs[1].resp.exc = "ReadTimeout"
    /\ call.ret = FALSE

Posted == call.op = "add_wireless_profile" /\ Len(call.reqs) = 1

\* C6: once the profile has been posted, add_wireless_profile returns True
\* for any 2xx status and for a read-timeout, and False for a non-2xx status.
C6_TimeoutIsSuccess ==
    Posted =>
        LET resp == call.reqs[1].resp
        IN  /\ (resp.exc = "none" /\ 200 <= resp.code /\ resp.code < 300) => call.ret
            /\ resp.exc = "ReadTimeout" => call.ret
            /\ (resp.exc = "none" /\ ~(200 <= resp.code /\ resp.code < 300)) => ~call.ret

\* A profile whose POST ended in a read-timeout and was reported as sent.
C6_Witness ==
    /\ Posted
    /\ call.reqs[1].resp.exc = "ReadTimeout"
    /\ call.ret

\* The security types that name an open network: "open" in any letter case
\* and the device's own value for it.
NamesOpenNetwork(security_type) ==
    StrLower(security_type) = S_open \/ security_type = S_none

\* C7: with a non-empty SSID, security type "open" and an empty password the
\* profile is sent; with a security type that does not name an open network
\* and an empty password the call returns False and sends nothing.
C7_PasswordUnlessOpen ==
    call.op = "add_wireless_profile" =>
        /\ (call.args[1] # "" /\ call.args[3] = S_open /\ call.args[2] = "")
              => /\ Len(call.reqs) = 1
                 /\ call.reqs[1].path = "/addWirelessProfile"
                 /\ call.reqs[1].body.securityType = S_none
        /\ (~NamesOpenNetwork(call.args[3]) /\ call.args[2] = "")
              => (call.ret = FALSE /\ call.reqs = <<>>)

\* An open network's profile sent without a password.
C7_Witness ==
    /\ call.op = "add_wireless_profile"
    /\ call.args[1] # "" /\ call.args[3] = S_open /\ call.args[2] = ""
    /\ Len(call.reqs) = 1

InVolumeRange(level) == 0 <= level /\ level <= 100

\* C8: set_volume with a level outside [0,100] returns False and sends
\* nothing; a request goes out only for a level in [0,100], so no volume
\* request ever sent carries a target outside [0,100].
C8_VolumeRange ==
    /\ call.op = "set_volume" =>
          /\ ~InVolumeRange(call.args[1]) => (call.ret = FALSE /\ call.reqs = <<>>)
          /\ InVolumeRange(call.args[1]) =>
                (Len(call.reqs) = 1 /\ call.reqs[1].body.targetvolume = call.args[1])
    /\ \A i \in 1..Len(http_log) :
          http_log[i].path = "/volume" => InVolumeRange(http_log[i].body.targetvolume)

\* A level above the range refused after a request for a level in range went out.
C8_Witness ==
    /\ call.op = "set_volume"
    /\ call.args[1] > 100
    /\ call.ret = FALSE
    /\ Len(http_log) = 1

\* C9: set_bass with a level outside the range the device reports returns
\* False and sends nothing.
C9_BassRange ==
    (call.op = "set_bass"
        /\ ~(call.args[2][1] <= call.args[1] /\ call.args[1] <= call.args[2][2]))
    => (call.ret = FALSE /\ call.reqs = <<>>)


-----------------------------------------------------------------------------
(* Properties of the track-end tracker *)

\* C3: track-end advancement fires at most once per track: while the tracker
\* keeps showing the same track inside the guard window (duration > 0,
\* position >= duration - 500 ms, state PLAY), at most one advance is
\* scheduled and the index moves at most once, to (current + 1) mod n.
C3_OneAdvancePerTrack ==
    track.in_window =>
        /\ track.scheduled <= 1
        /\ track.moved <= 1
        /\ (track.moved = 1 /\ player.playlist_len > 0)
              => player.playlist_index = (track.from + 1) % player.playlist_len

\* C4: once disconnect() has returned, no notification is put on the event
\* queue and no callback is called, also not for a frame the receive thread
\* was handling while disconnect() ran.
C4_NoDispatchAfterDisconnect ==
    [][(ws.disconnected /\ ws'.disconnected)
          => /\ Len(ws'.event_queue) <= Len(ws.event_queue)
             /\ ws'.delivered = ws.delivered]_vars

\* C5: an updates frame with k >= 1 recognised children puts k notifications
\* on the queue, one per child, of the child's own type and carrying the
\* wrapper's deviceID.
C5_EachChildDispatched ==
    (rx.pc = "callback" /\ rx.frame.tag = "updates")
        => /\ Len(rx.queued) = Len(ChildTypes(rx.frame.children))
           /\ \A i \in 1..Len(rx.queued) :
                /\ rx.queued[i].type = ChildTypes(rx.frame.children)[i]
                /\ rx.queued[i].deviceID = rx.frame.deviceID

\* C1: while scan(max_threads = N) runs, at most N probe threads are
\* started and not yet finished.
C1_AtMostNProbes ==
    scan.pc \in {"loop", "throttle", "join"}
        => Cardinality(Running) <= scan.max_threads

\* C10: a host whose probe failed, got a status other than 200, or got a
\* payload without a vendor signature is not in self.devices, and scan()
\* returns self.devices all the same.
C10_NoSignatureNoDevice ==
    /\ \A i \in 1..Len(devices) : devices[i].ip \notin quiet
    /\ (scan.pc = "done" /\ scan.hosts > 0) => scan.ret = "devices"

\* A scan has returned after a probe got an answer that counts for nothing
\* and another one found a device.
C10_Witness ==
    /\ scan.pc = "done"
    /\ quiet # {}
    /\ devices # <<>>

\* The hosts self.devices has an entry for.
Found == {devices[i].ip : i \in 1..Len(devices)}

\* C11: when every host of the network either refuses the connection or
\* answers with vendor info that makes a device, the list scan() returns
\* has one entry per answering host: none missing, none duplicated.
C11_OneEntryPerAnsweringHost ==
    (/\ scan.pc = "done" /\ scan.ret = "devices"
     /\ \A h \in 1..scan.hosts :
            probe[h] = "refused" \/ (probe[h] = "finished" /\ h \in Found))
    => /\ scan.returned = Cardinality(Found)
       /\ Len(devices) = Cardinality(Found)

\* C12: no probe is started once the timeout has elapsed: at the moment a
\* probe thread starts, the elapsed time is within the timeout.
C12_NoLaunchAfterTimeout ==
    [][\A h \in 1..MaxHosts :
          (probe[h] = "unstarted" /\ probe'[h] = "running")
              => scan'.elapsed <= scan'.timeout]_vars

\* What scan() has left to do, at most: rounds of the launch loop, each with
\* its check and at most WaitLimit + 1 sleeps, and then joins.
ScanRank(sc) ==
    LET round == WaitLimit + 3
        joins == MaxHosts + 2
    IN  CASE sc.pc = "idle" -> (MaxHosts + 2) * round + joins
          [] sc.pc = "loop" ->
                (sc.hosts + 1 - sc.next) * round + (round - 1) + joins
          [] sc.pc = "throttle" ->
                (sc.hosts + 1 - sc.next) * round + (round - 2 - sc.wait_count) + joins
          [] sc.pc = "join" -> sc.started + 2 - sc.join_i
          [] OTHER -> 0

\* C13: scan() returns whatever the probed hosts do: until it has returned
\* it has a step to take that waits for no probe, and every step of the
\* launch loop, the throttle wait and the join phase brings it closer to
\* the return by a measure that cannot fall below zero.
C13_ScanReturns ==
    /\ [](scan.pc # "done" => ENABLED (ScanStart \/ LoopCheck \/ Throttle \/ Join))
    /\ [](ScanRank(scan) >= 0)
    /\ [][/\ ScanRank(scan') <= ScanRank(scan)
          /\ (ScanStart \/ LoopCheck \/ Throttle \/ Join)
                => ScanRank(scan') < ScanRank(scan)]_vars

\* scan() has gone through its join phase and returned although a probe it
\* started has not ended.
C13_Witness ==
    /\ scan.pc = "done"
    /\ scan.ret = "devices"
    /\ Running # {}
    /\ scan.remaining_time > 0

AlreadyDisconnected(w) ==
    /\ ~w.connected
    /\ ~w.running
    /\ w.sock \in {"none", "closed"}

\* C15: disconnect() can always be called; on a client that is already
\* disconnected it changes nothing of the client, and after any disconnect()
\* the client is disconnected, so that a second disconnect() changes nothing.
C15_DisconnectIdempotent ==
    /\ [](ws.conn_pc = "idle" => ENABLED Disconnect)
    /\ [][Disconnect =>
            /\ AlreadyDisconnected(ws')
            /\ AlreadyDisconnected(ws)
                  => ws' = [ws EXCEPT !.disconnected = TRUE]]_vars

\* disconnect() has been called on a client whose connect() had failed.
C15_Witness ==
    /\ ws.disconnected
    /\ ws.conn_ret = "False"
    /\ AlreadyDisconnected(ws)

-----------------------------------------------------------------------------
(* Properties of the progress display *)

\* A step of the widget other than the handling of an update.
BetweenUpdates == MonitorTick \/ InterpolateTick \/ AdvanceFires \/ TimePasses

\* C16 (as stated): between two consecutive updates the displayed position
\* never decreases while the last play state is PLAY, and does not change
\* while it is PAUSE or STOP.
C16_DisplayedNeverDecreases ==
    [][BetweenUpdates =>
          /\ player.current_play_status = "PLAY_STATE"
                => player'.slider_value >= player.slider_value
          /\ player.current_play_status \in {"PAUSE_STATE", "STOP_STATE"}
                => player'.slider_value = player.slider_value]_vars

\* C16 (amended): between two consecutive updates, once the update or a tick
\* has set the displayed position, it never decreases while the last play
\* state is PLAY; the display never changes while the state is another one.
\* A display the update left alone (it reported position 0) may be lowered
\* by the first tick.
C16_SetPositionNeverDecreases ==
    [][BetweenUpdates =>
          /\ (player.current_play_status = "PLAY_STATE" /\ player.shown_since_update)
                => player'.slider_value >= player.slider_value
          /\ player.current_play_status # "PLAY_STATE"
                => player'.slider_value = player.slider_value]_vars

\* A tick has moved the display on from the position a PLAY update set.
C16_Witness ==
    /\ player.current_play_status = "PLAY_STATE"
    /\ player.shown_since_update
    /\ player.last_position_ms > 0
    /\ player.slider_value > player.last_position_ms

\* C17: while the last play state is PLAY and the duration is known, every
\* interpolation tick displays the last position plus the time since the
\* update, capped at the duration, and the displayed position never exceeds
\* the duration.
C17_InterpolationCapped ==
    /\ []((player.current_play_status = "PLAY_STATE" /\ player.last_duration_ms > 0)
            => player.slider_value <= player.last_duration_ms)
    /\ [][(/\ InterpolateTick
           /\ player.current_play_status = "PLAY_STATE"
           /\ player.last_duration_ms > 0)
            => player'.slider_value =
                   Min(player.last_position_ms + player.last_update_ago,
                       player.last_duration_ms)]_vars

\* A tick met the cap: the display stands at the duration although the last
\* position plus the time since the update is beyond it.
C17_Witness ==
    /\ player.current_play_status = "PLAY_STATE"
    /\ player.last_duration_ms > 0
    /\ player.shown_since_update
    /\ player.last_position_ms + player.last_update_ago > player.last_duration_ms
    /\ player.slider_value = player.last_duration_ms

-----------------------------------------------------------------------------
(* Properties of the playlist navigation *)

\* The widget after k more calls of play_next, or of play_previous.
RECURSIVE NextTimes(_, _)
NextTimes(k, p) == IF k = 0 THEN p ELSE NextTimes(k - 1, play_next(p))

RECURSIVE PreviousTimes(_, _)
PreviousTimes(k, p) == IF k = 0 THEN p ELSE PreviousTimes(k - 1, play_previous(p))

InPlaylist(p) == p.playlist_index \in 0..(p.playlist_len - 1)

\* C18 (as stated): with a playlist of n >= 2 files, next sets the index to
\* (index + 1) mod n and previous to (index - 1) mod n; the index stays in
\* [0, n), and n calls of next, or n calls of previous, lead back to the
\* starting entry.
C18_CircularNavigation ==
    /\ [](player.playlist_len >= 2 =>
            /\ InPlaylist(player)
            /\ NextTimes(player.playlist_len, player).playlist_index
                   = player.playlist_index
            /\ PreviousTimes(player.playlist_len, player).playlist_index
                   = player.playlist_index)
    /\ [][(PlayNext /\ player.playlist_len >= 2)
            => player'.playlist_index
                   = (player.playlist_index + 1) % player.playlist_len]_vars
    /\ [][(PlayPrevious /\ player.playlist_len >= 2)
            => player'.playlist_index
                   = (player.playlist_index - 1) % player.playlist_len]_vars

\* C18 (amended): the same, with next moving the index only when a device is
\* set; without a device next leaves the index where it is.
C18_CircularNavigationWithDevice ==
    /\ [](player.playlist_len >= 2 =>
            /\ InPlaylist(player)
            /\ player.controller
                  => NextTimes(player.playlist_len, player).playlist_index
                         = player.playlist_index
            /\ PreviousTimes(player.playlist_len, player).playlist_index
                   = player.playlist_index)
    /\ [][(PlayNext /\ player.playlist_len >= 2)
            => player'.playlist_index
                   = IF player.controller
                     THEN (player.playlist_index + 1) % player.playlist_len
                     ELSE player.playlist_index]_vars
    /\ [][(PlayPrevious /\ player.playlist_len >= 2)
            => player'.playlist_index
                   = (player.playlist_index - 1) % player.playlist_len]_vars

\* Navigation has wrapped around: in a playlist of more than two files a
\* press at the last file has led to the first one, which is streamed.
C18_Witness ==
    /\ player.playlist_len > 2
    /\ player.controller
    /\ player.pressed_at = player.playlist_len - 1
    /\ player.playlist_index = 0
    /\ player.currently_streaming_file = 0

\* Nothing of a stream start differs between p and q: no stream on the
\* device, no fast polling begun, no delayed start pending, no media server
\* being started.
NoStreamStarted(p, q) ==
    /\ q.streams = p.streams
    /\ q.currently_streaming_file = p.currently_streaming_file
    /\ q.polling_attempts = p.polling_attempts
    /\ q.fast_polling_active = p.fast_polling_active
    /\ q.starts = p.starts
    /\ q.dlna_starter = p.dlna_starter

\* C19: with a playlist of zero or one files, next and previous are no-ops
\* that report a failure: the index and the selected file stay, and no
\* stream is started on the device.
C19_ShortPlaylistNoOp ==
    [][((PlayNext \/ PlayPrevious) /\ player.playlist_len <= 1)
          => /\ player'.playlist_index = player.playlist_index
             /\ player'.current_file = player.current_file
             /\ NoStreamStarted(player, player')
             /\ player'.reported # ""]_vars

-----------------------------------------------------------------------------
(* Properties of the widget's timers *)

\* No timer of p runs and no delayed call is pending, apart from the pending
\* calls named in own.
NothingOutstanding(p, own) ==
    /\ ~p.monitor_active
    /\ ~p.interpolation_active
    /\ p.advances = <<>>
    /\ \A i \in 1..Len(p.starts) : p.starts[i].fn \in own

\* C20: no timer leaks across sessions: a switch of the device leaves no
\* timer running and no delayed call pending but its own status request, and
\* the start of a stream leaves none but its own fast polling.
C20_NoTimerLeaks ==
    /\ [][SetController
            => /\ NothingOutstanding(player', {"_fetch_current_status"})
               /\ ~player'.fast_polling_active]_vars
    /\ [][((PlayNext \/ PlayPrevious \/ SingleShotFires)
             /\ player'.streams > player.streams)
            => NothingOutstanding(player', {})]_vars

\* C21: an explicit stop (stop key or stop_playback) leaves no timer running
\* and no auto-advance or delayed start pending, and clears the current
\* file, the playlist and its index; no play_next fires after the stop
\* unless the user has started a stream since.
C21_StopEndsSession ==
    [][/\ ((StopPlayback \/ SendStopKey) /\ player'.stopped)
            => /\ NothingOutstanding(player', {})
               /\ ~player'.fast_polling_active
               /\ player'.current_file = NoFile
               /\ player'.playlist_len = 0
               /\ player'.playlist_index = 0
       /\ AdvanceFires => ~player.stopped]_vars


-----------------------------------------------------------------------------
(* Groups of the manager *)

Members(group) == <<group.master>> \o group.slaves

\* How often device d occurs, as master or slave, in the manager's groups.
Memberships(d) ==
    Cardinality({gi \in (1..Len(groups)) \X (1..(MaxSlaves + 1)) :
                    /\ gi[2] <= Len(Members(groups[gi[1]]))
                    /\ Members(groups[gi[1]])[gi[2]] = d})

\* C22: in every group the manager holds, after any create_group, add_to_group
\* and remove_from_group calls with any arguments, the master is not an element
\* of the slave list.
C22_MasterNotSlave ==
    \A g \in 1..Len(groups) :
        \A i \in 1..Len(groups[g].slaves) : groups[g].slaves[i] # groups[g].master

\* C23: after any create_group, add_to_group and remove_from_group calls every
\* device is a member, as master or slave, of at most one group of the manager
\* and occurs at most once in it.
C23_OneMembership == \A d \in Devices : Memberships(d) <= 1


\* The group a call with group_index is about, 0 when the index names none.
Named(group_index) ==
    IF group_index >= Len(groups) THEN 0 ELSE Position(Len(groups), group_index)

\* The one request of a membership call: command path to the master's address,
\* naming the master and the members given.
OnlyToMaster(reqs, master_device, path, members) ==
    /\ Len(reqs) = 1
    /\ reqs[1].ip = master_device
    /\ reqs[1].path = path
    /\ reqs[1].body = ZoneBody(master_device, members)

\* C24: membership is changed through the master only.  create_group issues
\* exactly one set-zone command, to the master, carrying the full slave list;
\* add_to_group and remove_from_group on a group of the manager issue exactly
\* one add or remove command naming the device, to that group's master; no
\* request of the three goes to another address.
C24_ThroughMasterOnly ==
    [][/\ call'.op = "create_group"
            => OnlyToMaster(call'.reqs, call'.args[1], "/setZone", call'.args[2])
       /\ (call'.op = "add_to_group" /\ Named(call'.args[1]) # 0)
            => OnlyToMaster(call'.reqs, groups[Named(call'.args[1])].master,
                            "/addZoneSlave", <<call'.args[2]>>)
       /\ (call'.op = "remove_from_group" /\ Named(call'.args[1]) # 0)
            => OnlyToMaster(call'.reqs, groups[Named(call'.args[1])].master,
                            "/removeZoneSlave", <<call'.args[2]>>)]_vars

\* A device that is not the master was added to a group holding a slave, and
\* the master accepted it.
C24_Witness ==
    /\ call.op = "add_to_group"
    /\ call.ret
    /\ Len(call.reqs) = 1
    /\ Len(groups) > 0
    /\ Len(groups[1].slaves) = 2
    /\ groups[1].slaves[2] = call.args[2]
    /\ groups[1].slaves[2] # groups[1].master


C26_VolumeToEveryMember ==
    [][(/\ call'.op = "set_group_volume"
        /\ InVolumeRange(call'.args[2])
        /\ Named(call'.args[1]) # 0) =>
        LET members == Members(groups[Named(call'.args[1])])
            n == Len(call'.reqs)
        IN  /\ \A i \in 1..Len(members) : \E j \in 1..n : call'.reqs[j].ip = members[i]
            /\ \A j \in 1..n : \E i \in 1..Len(members) : call'.reqs[j].ip = members[i]
            /\ \A j \in 1..n : call'.reqs[j].path = "/volume"
            /\ call'.ret <=> \A j \in 1..n : Ok200(call'.reqs[j].resp)]_vars


-----------------------------------------------------------------------------
(* Queries of the controller *)

\* The request of the query failed: an exception of requests, or a status
\* other than 200.
RequestFailed(response) == response.exc # "none" \/ response.code # 200

\* C27 as stated: every query returns None or False when the request times
\* out, the connection fails, the status is not 200 or the body is malformed.
C27_NoValueOnFailure ==
    call.op \in Queries =>
        ((RequestFailed(call.reqs[1].resp) \/ call.reqs[1].resp.body = "not_xml")
            => call.ret \in {"None", "False"})

\* C27: no query raises; each returns None (is_reachable: False) when the
\* request times out, the connection fails or the status is not 200; every
\* query but is_reachable, which does not read the body, returns None when the
\* body is no XML, and get_volume and get_bass also when a number in it is none.
C27_NoValueUnlessReachable ==
    call.op \in Queries =>
        /\ call.ret # "raised"
        /\ RequestFailed(call.reqs[1].resp) => call.ret \in {"None", "False"}
        /\ (call.op # "is_reachable" /\ call.reqs[1].resp.body = "not_xml")
                => call.ret = "None"
        /\ (call.op \in {"get_volume", "get_bass"}
                /\ call.reqs[1].resp.body = "not_a_number") => call.ret = "None"
        /\ (call.op = "is_reachable" /\ ~RequestFailed(call.reqs[1].resp))
                => call.ret = "True"

\* get_volume got status 200 with a body that is no XML and returned None.
C27_Witness ==
    /\ call.op = "get_volume"
    /\ call.reqs[1].resp.code = 200
    /\ call.reqs[1].resp.body = "not_xml"
    /\ call.ret = "None"


\* C28: every mutating call of the controller is one request and its answer,
\* with no retry: apart from send_key's press and release, a call sends at most
\* one request and no further command on its own, whether the first request
\* succeeded or failed.
C28_SingleRequest ==
    call.op \notin {"none", "send_key"} => Len(call.reqs) <= 1


-----------------------------------------------------------------------------
(* The two-step DLNA start *)

\* What the caller of a method gets: the value returned, and what was printed.
Reported(out) == <<out.ret, out.msgs>>

\* C29: 'transport URI set succeeded but play failed' is reported to the caller
\* distinctly from 'transport URI set failed': what the caller gets after the
\* first differs from what it gets after any run in which the URI set failed.
C29_PartialFailureDistinct ==
    /\ (call.op = "play_url_dlna" /\ Len(call.reqs) = 2 /\ ~call.ret) =>
          \A r_set \in Responses :
              ~Ok200(r_set) =>
                  Reported(play_url_dlna(call.args[1], r_set, r_set)) # Reported(call)
    /\ (call.op = "play_dlna_track_from_server" /\ Len(call.reqs) = 2 /\ ~call.ret) =>
          \A r_set \in Responses :
              ~Ok200(r_set) =>
                  Reported(play_dlna_track_from_server(TRUE, r_set, r_set)) # Reported(call)


-----------------------------------------------------------------------------
(* Pulling events *)

\* C30: pull-driven consumption never blocks the caller indefinitely: every
\* call of get_next_event(), also one with its default arguments, returns
\* after a bounded wait even if no event arrives and the channel is
\* disconnected: no call is still waiting after more ticks than the longest
\* timeout.
C30_BoundedWait == ws.getter.pc = "waiting" => ws.getter.waited <= MaxWait

-----------------------------------------------------------------------------
(* The start of a stream *)

\* The last stream start sent both SOAP commands and both were answered 200.
BothSucceeded(c) ==
    /\ c.op = "stream_to_device"
    /\ Len(c.reqs) = 2
    /\ Ok200(c.reqs[1].resp)
    /\ Ok200(c.reqs[2].resp)

\* A fast-poll burst starts in this step: the timer runs from its full
\* interval with the attempt counter at 0, and did not before.
BurstStarts ==
    /\ player'.fast_polling_active
    /\ player'.polling_attempts = 0
    /\ player'.fast_polling_left = FastPollIntervalMs
    /\ \/ ~player.fast_polling_active
       \/ player.polling_attempts # 0
       \/ player.fast_polling_left # FastPollIntervalMs

\* C31: a stream start follows a fixed order: SetAVTransportURI is sent first,
\* Play only after SetAVTransportURI succeeded, and the fast-poll burst is
\* started, its attempt counter at 0, only after both succeeded; when either
\* step fails no fast polling is started and the currently streaming file is
\* cleared.
C31_StreamStartOrder ==
    /\ [](call.op = "stream_to_device"
            => /\ Len(call.reqs) <= 2
               /\ Len(call.reqs) >= 1 => call.reqs[1].body[1] = "SetAVTransportURI"
               /\ Len(call.reqs) = 2 => /\ call.reqs[2].body[1] = "Play"
                                        /\ Ok200(call.reqs[1].resp))
    /\ [][BurstStarts => BothSucceeded(call')]_vars
    /\ [][(/\ call' # call
           /\ call'.op = "stream_to_device"
           /\ Len(call'.reqs) >= 1
           /\ ~BothSucceeded(call'))
            => /\ player'.currently_streaming_file = NoFile
               /\ player'.fast_polling_active = player.fast_polling_active
               /\ player'.polling_attempts = player.polling_attempts
               /\ player'.fast_polling_left = player.fast_polling_left]_vars

\* A stream was started: both commands were answered 200, the selected file
\* is the streaming one and the burst has begun.
C31_Witness ==
    /\ BothSucceeded(call)
    /\ player.currently_streaming_file = player.current_file
    /\ player.fast_polling_active
    /\ player.polling_attempts = 0

-----------------------------------------------------------------------------
(* The fast-poll burst *)

\* _poll_status_fast runs in this step; with call'.ret it has got a status.
PollTick == player'.polling_attempts = player.polling_attempts + 1

\* C32: a fast-poll burst stops after at most max_polling_attempts ticks
\* whatever the device returns, no value on every poll included: while the
\* timer runs fewer than MaxPollingAttempts ticks of the burst have passed;
\* it stops earlier at a tick that observes PLAY_STATE at a position above 0,
\* or PLAY_STATE after PlayingAttempts attempts, or that finds no controller.
C32_BurstBounded ==
    /\ [](/\ player.polling_attempts <= MaxPollingAttempts
          /\ player.fast_polling_active
                => player.polling_attempts < MaxPollingAttempts)
    /\ [][(/\ PollTick
           /\ call'.op = "get_nowplaying" /\ call'.ret
           /\ player'.current_play_status = "PLAY_STATE"
           /\ \/ player'.last_position_ms > 0
              \/ player'.polling_attempts >= PlayingAttempts)
            => ~player'.fast_polling_active]_vars
    /\ [][(PollTick /\ ~player.controller) => ~player'.fast_polling_active]_vars

\* A burst has run to its limit on a device that returns no value: the
\* timer is stopped at the last attempt.
C32_Witness ==
    /\ player.current_play_status = "None"
    /\ player.polling_attempts = MaxPollingAttempts
    /\ ~player.fast_polling_active

-----------------------------------------------------------------------------
(* The wait for the media server *)

\* C33: the wait for the media server at a stream start carries a maximum
\* attempt count: stream_to_device stops re-scheduling itself after a bounded
\* number of retries, also when minidlna never becomes available.
C33_BoundedRetries == player.retries <= MaxRetries

-----------------------------------------------------------------------------
(* Listing the media server's files *)

\* C34: browsing a container that returns only sub-containers recurses to at
\* most a small fixed depth, and for every container tree, also one whose
\* container ids repeat in a cycle, the listing ends after a bounded number
\* of Browse requests.
C34_BrowseBounded ==
    /\ player.browse.deepest <= MaxDepth
    /\ player.browse.requests <= MaxBrowse

-----------------------------------------------------------------------------
(* The stored duration *)

\* The first positive value of the three, 0 when none is positive.
FirstPositive(a, b, c) ==
    IF a > 0 THEN a ELSE IF b > 0 THEN b ELSE IF c > 0 THEN c ELSE 0

\* C35: after every NowPlayingUpdated event the stored duration is the first
\* positive value in the order device, external metadata store, cached file
\* metadata, and 0 when none is positive, hence never negative, for every
\* reported value and for both forms of the event.
C35_DurationResolved ==
    call.op = "_on_now_playing_updated"
        => /\ player.last_duration_ms
                  = FirstPositive(call.args[2], call.args[3], call.args[4])
           /\ player.last_duration_ms >= 0

-----------------------------------------------------------------------------
(* Both ways of consuming events *)

\* The types of the events a decoded frame carries, in the order of arrival:
\* the recognised children of an updates wrapper, or the frame's own event.
EventTypes(frame) ==
    IF frame.tag = "updates" THEN ChildTypes(frame.children)
    ELSE <<parse_notification(frame).type>>

\* C36: every successfully decoded inbound event is available on both paths:
\* it is appended to the queue exactly once and, if a handler is registered
\* for its type, that handler is called exactly once with it, in arrival
\* order.
C36_BothPaths ==
    [][(rx.pc = "callback" /\ rx'.pc = "idle")
          => LET events == EventTypes(rx.frame)
                 HasHandler(type) == type \in ws.callbacks
                 handled == SelectSeq(events, HasHandler)
             IN  /\ [i \in 1..Len(rx.queued) |-> rx.queued[i].type] = events
                 /\ [i \in 1..Len(rx'.called) |-> rx'.called[i].type] = handled]_vars

-----------------------------------------------------------------------------
(* Failures of the profile request *)

\* C37: the read-timeout is the only failed outcome that add_wireless_profile
\* reports as success: when the POST fails in any other way (connection
\* refused, connect timeout, any other exception raised while sending) the
\* call returns False.
C37_OnlyReadTimeoutSucceeds ==
    (Posted /\ call.reqs[1].resp.exc \notin {"none", "ReadTimeout"}) => ~call.ret

-----------------------------------------------------------------------------
(* The list a scan returns *)

\* C38: the list returned by scan() is final: once scan() has returned no
\* probe thread appends a device to it, also when the overall timeout
\* expired or the join budget ran out while probes were in flight.
C38_ReturnedListFinal ==
    (scan.pc = "done" /\ scan.ret = "devices") => Len(devices) = scan.returned

-----------------------------------------------------------------------------
(* A failed connect *)

\* C39: whenever connect() has returned False the client is disconnected:
\* its connected flag is False when connect() returns and stays False until
\* the next connect() call, also when the channel's open event comes late.
C39_FailedConnectDisconnected ==
    (ws.conn_pc = "idle" /\ ws.conn_ret = "False") => ~ws.connected

-----------------------------------------------------------------------------
(* A group operation that fails *)

GroupOps == {"create_group", "add_to_group", "remove_from_group"}

\* C40: a call of create_group, add_to_group or remove_from_group that returns
\* False (the device refused the command, the network failed, or the index
\* names no group) leaves the group list and every group's master and slave
\* lists as they were before the call.
C40_FailedCallChangesNothing ==
    [][(call'.op \in GroupOps /\ ~call'.ret) => groups' = groups]_vars

\* A call on an existing group has come back False after a network failure.
C40_Witness ==
    /\ groups # <<>>
    /\ call.op \in {"add_to_group", "remove_from_group"}
    /\ ~call.ret
    /\ call.reqs # <<>>
    /\ call.reqs[1].resp.exc = "ConnectionError"

=============================================================================
